---- MODULE Spec2Model ----
(***************************************************************************)
(* A model of the slimjson transformation engine (src/slimjson.go, the     *)
(* first package body, lines 1-716): a Slimmer is constructed by New from  *)
(* a Config and then asked to Slim JSON values.                            *)
(*                                                                         *)
(* JSON values are records tagged by k:                                    *)
(*   null, bool, num (a float64, held in halves: v = 3 is 1.5; t = 1 when  *)
(*   the number is 0.00005 above that), int (a Go int), bits (a Go int     *)
(*   held as the set of its bits that are 1), str (a sequence of code      *)
(*   points), arr (a sequence of values), obj (a function from keys to     *)
(*   values; a key is a sequence of code points).                          *)
(***************************************************************************)
EXTENDS Integers, Sequences, FiniteSets, TLC

VARIABLES
    cfg,         \* Slimmer.Config, after New's defaults
    stringPool,  \* Slimmer.stringPool: string -> index
    stringList,  \* Slimmer.stringList: index -> string
    enumPools,   \* Slimmer.enumPools: field path -> list of strings
    nullFields,  \* Slimmer.nullFields
    data,        \* the argument of the last Slim call, as it was passed
    tree,        \* the caller's value tree of that argument, after the call
    result,      \* the value the last Slim call returned
    calls,       \* the number of Slim calls made on this Slimmer
    goroutines,  \* the Slim calls of the goroutines that share this Slimmer
    held,        \* the value the first Slim call returned: as returned, and now
    parser       \* ParseConfigFile: the file, the locals of its loop, its result

vars ==
    <<cfg, stringPool, stringList, enumPools, nullFields, data, tree, result, calls,
      goroutines, held, parser>>

----------------------------------------------------------------------------
(* The value model.                                                        *)

Null == [k |-> "null"]
Bool(b) == [k |-> "bool", v |-> b]
Num(h) == [k |-> "num", v |-> h, t |-> 0]
NumNear(h, t) == [k |-> "num", v |-> h, t |-> t]
GoInt(i) == [k |-> "int", v |-> i]
GoBits(b) == [k |-> "bits", v |-> b]
Str(s) == [k |-> "str", v |-> s]
Arr(s) == [k |-> "arr", v |-> s]
Obj(f) == [k |-> "obj", v |-> f]

\* No value: no Slim call has been made yet.
NoValue == [k |-> "none"]

\* A run-time panic: the call does not return a value.
Panic == [k |-> "panic"]

IsScalar(x) == x.k \in {"null", "bool", "num", "int", "bits", "str"}

\* The sequences that list the finite set S once each, in every order: the
\* outcomes of ranging over a Go map whose key set is S.
Orderings(S) ==
    {s \in [1..Cardinality(S) -> S] : \A i, j \in 1..Cardinality(S) : s[i] = s[j] => i = j}

\* The subsequence of ord whose elements are in S.
Restrict(ord, S) == SelectSeq(ord, LAMBDA x : x \in S)

\* The elements of a sequence.
Range(s) == {s[i] : i \in 1..Len(s)}

\* The first n elements of s.
Take(s, n) == SubSeq(s, 1, n)

----------------------------------------------------------------------------
(* Text.                                                                   *)

\* len(string(r)): the bytes of a code point's UTF-8 encoding.
RuneLen(r) == IF r < 128 THEN 1 ELSE IF r < 2048 THEN 2 ELSE IF r < 65536 THEN 3 ELSE 4

\* len(str) of a Go string: its length in bytes.
RECURSIVE ByteLen(_)
ByteLen(s) == IF s = <<>> THEN 0 ELSE RuneLen(Head(s)) + ByteLen(Tail(s))

\* unicode.SimpleFold restricted to ASCII: the lower-case letter of A..Z.
FoldRune(r) == IF r >= 65 /\ r <= 90 THEN r + 32 ELSE r

\* strings.EqualFold on code-point sequences.
EqualFold(s, t) ==
    /\ Len(s) = Len(t)
    /\ \A i \in 1..Len(s) : FoldRune(s[i]) = FoldRune(t[i])

\* "...", the ellipsis prune appends to a truncated string.
Ellipsis == <<46, 46, 46>>

\* The side-car and rewrite keys: "_strings", "_enums", "_nulls", "_bools",
\* "flags", "keys", "_schema", "_data", "_range".
kStrings == <<95, 115, 116, 114, 105, 110, 103, 115>>
kEnums == <<95, 101, 110, 117, 109, 115>>
kNulls == <<95, 110, 117, 108, 108, 115>>
kBools == <<95, 98, 111, 111, 108, 115>>
kFlags == <<102, 108, 97, 103, 115>>
kKeys == <<107, 101, 121, 115>>
kSchema == <<95, 115, 99, 104, 101, 109, 97>>
kData == <<95, 100, 97, 116, 97>>
kRange == <<95, 114, 97, 110, 103, 101>>

\* stripEmoji: keep code points 32..126, newline, carriage return and tab.
stripEmoji(s) ==
    SelectSeq(s, LAMBDA r : (r >= 32 /\ r <= 126) \/ r = 10 \/ r = 13 \/ r = 9)

----------------------------------------------------------------------------
(* Numbers.                                                                *)

\* int(f) of a float64 held in halves: truncation toward zero.
TruncHalves(h) == IF h >= 0 THEN h \div 2 ELSE -((-h) \div 2)

\* math.Round(f) of a float64 held in halves, again in halves: half away
\* from zero.
RoundHalves(h) == IF h >= 0 THEN 2 * ((h + 1) \div 2) ELSE -(2 * ((1 - h) \div 2))

\* int(f) of the float64 x: the 0.00005 of x.t brings a negative whole number
\* one nearer to zero.
TruncNear(x) ==
    IF x.t > 0 /\ x.v < 0 /\ x.v % 2 = 0 THEN (x.v \div 2) + 1 ELSE TruncHalves(x.v)

\* math.Round(f) of the float64 x, in halves: the 0.00005 of x.t decides a
\* negative half upwards.
RoundNear(x) ==
    IF x.t > 0 /\ x.v < 0 /\ x.v % 2 = 1 THEN x.v + 1 ELSE RoundHalves(x.v)

\* rune(i): the conversion of an int to int32; every integer of this model
\* is within int32, which the conversion leaves as it is.
ToRune(i) == i

\* string(rune): the one-code-point string, U+FFFD for what is no code point.
RuneString(r) ==
    IF r < 0 \/ r > 1114111 \/ (r >= 55296 /\ r <= 57343) THEN <<65533>> ELSE <<r>>

----------------------------------------------------------------------------
(* The array pipeline's helpers.                                           *)

\* reflect.Value.String() of a map and of a slice: the kind's name, whatever
\* the contents ("<map[string]interface {} Value>", "<[]interface {} Value>").
MapValueString ==
    <<60, 109, 97, 112, 91, 115, 116, 114, 105, 110, 103, 93, 105, 110, 116, 101,
      114, 102, 97, 99, 101, 32, 123, 125, 32, 86, 97, 108, 117, 101, 62>>
SliceValueString ==
    <<60, 91, 93, 105, 110, 116, 101, 114, 102, 97, 99, 101, 32, 123, 125, 32, 86,
      97, 108, 117, 101, 62>>

\* valueToString: the signature deduplicateArray compares elements by.
valueToString(x) ==
    CASE x.k = "null" -> <<110, 117, 108, 108>>
      [] x.k = "str" -> x.v
      [] x.k = "int" -> RuneString(ToRune(x.v))
      [] x.k = "num" -> RuneString(ToRune(TruncNear(x)))
      [] x.k = "bool" -> IF x.v THEN <<116, 114, 117, 101>> ELSE <<102, 97, 108, 115, 101>>
      [] x.k = "obj" -> MapValueString
      [] x.k = "arr" -> SliceValueString

\* isEmpty: nil, the empty string, the empty map, the empty slice.
isEmpty(x) ==
    \/ x.k = "null"
    \/ x.k = "str" /\ Len(x.v) = 0
    \/ x.k = "obj" /\ DOMAIN x.v = {}
    \/ x.k = "arr" /\ Len(x.v) = 0

\* isBlocked: the key equals a blocklist entry, letter case ignored.
isBlocked(c, key) == \E blocked \in c.BlockList : EqualFold(blocked, key)

\* The loop of deduplicateArray from element i on, seen being the signatures
\* of the elements before i.
RECURSIVE dedupFrom(_, _, _)
dedupFrom(arr, i, seen) ==
    IF i > Len(arr) THEN <<>>
    ELSE LET key == valueToString(arr[i])
         IN IF key \in seen
            THEN dedupFrom(arr, i + 1, seen)
            ELSE <<arr[i]>> \o dedupFrom(arr, i + 1, seen \cup {key})

\* Mutant of deduplicateArray: an element is compared with the element before
\* it only.
dedupAdjacent(arr) ==
    IF Len(arr) = 0 THEN arr
    ELSE
    SelectSeq([i \in 1..Len(arr) |->
                  IF i > 1 /\ valueToString(arr[i]) = valueToString(arr[i - 1])
                  THEN NoValue ELSE arr[i]],
              LAMBDA e : e # NoValue)

deduplicateArray(arr) == dedupFrom(arr, 1, {})

\* Mutant of sampleFirstLast: the larger half is taken from the front.
sampleFirstLastFrontHeavy(arr, n) ==
    IF n >= Len(arr) THEN arr
    ELSE LET secondHalf == n \div 2
             firstHalf == n - secondHalf
         IN SubSeq(arr, 1, firstHalf) \o SubSeq(arr, Len(arr) - secondHalf + 1, Len(arr))

\* sampleFirstLast: the first n/2 and the last n - n/2 elements.
sampleFirstLast(arr, n) ==
    IF n >= Len(arr) THEN arr
    ELSE LET firstHalf == n \div 2
             secondHalf == n - firstHalf
         IN SubSeq(arr, 1, firstHalf) \o SubSeq(arr, Len(arr) - secondHalf + 1, Len(arr))

\* sampleRandom: the elements at the first n indices of rand.Perm(len(arr));
\* perm is the permutation drawn, of 1..m for an m >= len(arr).
sampleRandom(arr, n, perm) ==
    IF n >= Len(arr) THEN arr
    ELSE LET indices == Take(Restrict(perm, 1..Len(arr)), n)
         IN [i \in 1..n |-> arr[indices[i]]]

\* sampleRepresentative: the elements at the 0-based indices int(i * len/n),
\* i < n; the float64 product is exact for the lengths of this model.
sampleRepresentative(arr, n) ==
    IF n >= Len(arr) THEN arr
    ELSE [i \in 1..n |->
            LET idx == ((i - 1) * Len(arr)) \div n
            IN arr[(IF idx >= Len(arr) THEN Len(arr) - 1 ELSE idx) + 1]]

\* Mutant of the default strategy: one element more than the target size.
truncateListOneMore(arr, n) == IF n < Len(arr) THEN Take(arr, n + 1) ELSE arr

\* The default strategy of sampleArray: arr[:targetSize].
truncateList(arr, n) == IF n < Len(arr) THEN Take(arr, n) ELSE arr

\* The target size sampleArray works out from SampleSize and MaxListLength.
targetSize(c) ==
    IF c.SampleSize = 0 /\ c.MaxListLength > 0 THEN c.MaxListLength ELSE c.SampleSize

\* sampleArray panics: with a negative target size no early return is taken,
\* and arr[:targetSize], make([]interface{}, 0, n) and rand.Perm(len)[:n]
\* each fail at run time with a negative n.
samplePanics(c, arr) == Len(arr) > 0 /\ targetSize(c) < 0

sampleArray(c, arr, perm) ==
    IF Len(arr) = 0 THEN arr
    ELSE IF targetSize(c) = 0 \/ targetSize(c) >= Len(arr) THEN arr
    ELSE CASE c.SampleStrategy = "first_last" -> sampleFirstLast(arr, targetSize(c))
           [] c.SampleStrategy = "random" -> sampleRandom(arr, targetSize(c), perm)
           [] c.SampleStrategy = "representative" -> sampleRepresentative(arr, targetSize(c))
           [] OTHER -> truncateList(arr, targetSize(c))

\* Mutant of applyTypeInference: the numbers of keys are not compared, so an
\* object with the first object's keys and more passes.
applyTypeInferenceFirstKeysOnly(c, arr, ord) ==
    IF ~c.TypeInference THEN Arr(arr)
    ELSE IF Len(arr) < 3 THEN Arr(arr)
    ELSE IF \E i \in 1..Len(arr) : arr[i].k # "obj" THEN Arr(arr)
    ELSE LET firstKeys == Restrict(ord, DOMAIN arr[1].v)
         IN IF \E i \in 2..Len(arr) :
                   \E j \in 1..Len(firstKeys) : firstKeys[j] \notin DOMAIN arr[i].v
            THEN Arr(arr)
            ELSE Obj([key \in {kSchema, kData} |->
                    IF key = kSchema
                    THEN Arr([j \in 1..Len(firstKeys) |-> Str(firstKeys[j])])
                    ELSE Arr([i \in 1..Len(arr) |->
                            Arr([j \in 1..Len(firstKeys) |-> arr[i].v[firstKeys[j]]])])])

\* applyTypeInference: an array of at least 3 objects with one key set becomes
\* {_schema, _data}; firstKeys is the first object's keys in the order the
\* range over it gave them.
applyTypeInference(c, arr, ord) ==
    IF ~c.TypeInference THEN Arr(arr)
    ELSE IF Len(arr) < 3 THEN Arr(arr)
    ELSE IF \E i \in 1..Len(arr) : arr[i].k # "obj" THEN Arr(arr)
    ELSE LET firstKeys == Restrict(ord, DOMAIN arr[1].v)
         IN IF \E i \in 2..Len(arr) :
                   \/ Cardinality(DOMAIN arr[i].v) # Len(firstKeys)
                   \/ \E j \in 1..Len(firstKeys) : firstKeys[j] \notin DOMAIN arr[i].v
            THEN Arr(arr)
            ELSE Obj([key \in {kSchema, kData} |->
                    IF key = kSchema
                    THEN Arr([j \in 1..Len(firstKeys) |-> Str(firstKeys[j])])
                    ELSE Arr([i \in 1..Len(arr) |->
                            Arr([j \in 1..Len(firstKeys) |-> arr[i].v[firstKeys[j]]])])])

\* The float64 of a numeric element.
numberOf(x) == IF x.k = "int" THEN Num(2 * x.v) ELSE x

\* A float64 in units of 0.00005: a half is 10000 of them.
Ticks(x) == 10000 * x.v + x.t

\* math.Abs(a - b), in units of 0.00005.
AbsDiff(a, b) == IF a >= b THEN a - b ELSE b - a

\* Mutant of applyNumberDelta: any constant step passes, not only 1.
applyNumberDeltaAnyStep(c, arr) ==
    IF ~c.NumberDeltaEncoding THEN Arr(arr)
    ELSE IF Len(arr) < c.NumberDeltaThreshold THEN Arr(arr)
    ELSE IF \E i \in 1..Len(arr) : arr[i].k \notin {"int", "num"} THEN Arr(arr)
    ELSE IF Len(arr) < 2 THEN Arr(arr)
    ELSE LET numbers == [i \in 1..Len(arr) |-> numberOf(arr[i])]
             deltas == [i \in 1..(Len(arr) - 1) |-> Ticks(numbers[i + 1]) - Ticks(numbers[i])]
             isSequential == \A i \in 1..Len(deltas) : ~(AbsDiff(deltas[i], deltas[1]) > 2)
         IN IF isSequential
            THEN Obj([key \in {kRange} |-> Arr(<<numbers[1], numbers[Len(arr)]>>)])
            ELSE Arr(arr)

\* applyNumberDelta: an array of numbers whose differences are within 0.0001
\* of the first difference, itself within 0.0001 of 1, becomes
\* {_range: [first, last]}. The arithmetic is exact here; the inputs of the
\* model have no difference at 0.0001 from another, where the float64 error
\* would decide.
applyNumberDelta(c, arr) ==
    IF ~c.NumberDeltaEncoding THEN Arr(arr)
    ELSE IF Len(arr) < c.NumberDeltaThreshold THEN Arr(arr)
    ELSE IF \E i \in 1..Len(arr) : arr[i].k \notin {"int", "num"} THEN Arr(arr)
    ELSE IF Len(arr) < 2 THEN Arr(arr)
    ELSE LET numbers == [i \in 1..Len(arr) |-> numberOf(arr[i])]
             deltas == [i \in 1..(Len(arr) - 1) |-> Ticks(numbers[i + 1]) - Ticks(numbers[i])]
             isSequential == \A i \in 1..Len(deltas) : ~(AbsDiff(deltas[i], deltas[1]) > 2)
         IN IF isSequential /\ AbsDiff(deltas[1], 20000) < 2
            THEN Obj([key \in {kRange} |-> Arr(<<numbers[1], numbers[Len(arr)]>>)])
            ELSE Arr(arr)

\* The width of a Go int on the 64-bit builds.
WordBits == 64

\* 1 << i in a Go int, as the set of its bits that are 1: none once i
\* reaches the width.
ShiftOne(i) == IF i >= WordBits THEN {} ELSE {i}

\* flags |= 1 << i for every true key.
RECURSIVE flagsFrom(_, _, _)
flagsFrom(m, boolKeys, i) ==
    IF i > Len(boolKeys) THEN {}
    ELSE (IF m[boolKeys[i]].v THEN ShiftOne(i - 1) ELSE {}) \cup flagsFrom(m, boolKeys, i + 1)

\* applyBoolCompression: three or more boolean fields become _bools; boolKeys
\* is in the order the range over m gave them.
applyBoolCompression(c, m, ord) ==
    IF ~c.BoolCompression THEN m
    ELSE LET boolKeys == Restrict(ord, {key \in DOMAIN m : m[key].k = "bool"})
         IN IF Len(boolKeys) < 3 THEN m
            ELSE [key \in (DOMAIN m \ Range(boolKeys)) \cup {kBools} |->
                    IF key = kBools
                    THEN Obj([f \in {kFlags, kKeys} |->
                            IF f = kFlags
                            THEN GoBits(flagsFrom(m, boolKeys, 1))
                            ELSE Arr([i \in 1..Len(boolKeys) |-> Str(boolKeys[i])])])
                    ELSE m[key]]

\* applyStringPooling: the pool index of a pooled string, else the string.
applyStringPooling(c, pool, str) ==
    IF ~c.StringPooling THEN Str(str)
    ELSE IF str \in DOMAIN pool THEN GoInt(pool[str])
    ELSE Str(str)

\* applyTimestampCompression: a stub, every branch returns the string.
applyTimestampCompression(c, str) == str

----------------------------------------------------------------------------
(* The recursive transform.                                                *)

\* Mutants of the depth gate: without the test for "no limit", and cutting
\* one level too late.
depthCutNoUnlimited(c, depth) == depth >= c.MaxDepth
depthCutLate(c, depth) == c.MaxDepth > 0 /\ depth > c.MaxDepth

\* The depth gate of prune.
depthCut(c, depth) == c.MaxDepth > 0 /\ depth >= c.MaxDepth

\* The strip-empty test prune makes on a transformed field value or element.
stripped(c, x) == c.StripEmpty /\ isEmpty(x)

\* Mutant of the truncation: the length compared is len(str), in bytes.
truncateStringBytes(c, str) ==
    IF c.MaxStringLength > 0 /\ ByteLen(str) > c.MaxStringLength
    THEN IF c.MaxStringLength > 3
         THEN Take(str, c.MaxStringLength - 3) \o Ellipsis
         ELSE Take(str, c.MaxStringLength)
    ELSE str

\* The truncation of prune's string case: runes counts code points.
truncateString(c, str) ==
    IF c.MaxStringLength > 0 /\ Len(str) > c.MaxStringLength
    THEN IF c.MaxStringLength > 3
         THEN Take(str, c.MaxStringLength - 3) \o Ellipsis
         ELSE Take(str, c.MaxStringLength)
    ELSE str

\* The string case of prune.
pruneString(c, pool, str) ==
    IF c.StripEmpty /\ str = <<>> THEN Null
    ELSE LET s1 == IF c.StripUTF8Emoji THEN stripEmoji(str) ELSE str
             pooled == applyStringPooling(c, pool, s1)
         IN IF c.StringPooling /\ pooled # Str(s1) THEN pooled
            ELSE LET s2 == IF c.TimestampCompression
                           THEN applyTimestampCompression(c, s1) ELSE s1
                 IN Str(truncateString(c, s2))

\* Mutant of the float case: "no rounding" (-1) rounds as 0 places do.
pruneFloatNoOptOut(c, x) ==
    IF c.DecimalPlaces <= 0 THEN Num(RoundNear(x)) ELSE x

\* The float case of prune: math.Round(f * 10^places) / 10^places. A multiple
\* of 0.5 is its own rounding to one or more places; the 0.00005 of x.t is
\* rounded away at 1 to 3 places and kept at 5 or more (no configuration of
\* the model rounds to 4 places, where the float64 error decides).
pruneFloat(c, x) ==
    IF c.DecimalPlaces >= 0
    THEN IF c.DecimalPlaces = 0 THEN Num(RoundNear(x))
         ELSE IF c.DecimalPlaces <= 3 THEN Num(x.v)
         ELSE x
    ELSE x

\* Mutant of the array pipeline: an array emptied by its steps is returned
\* as it is under strip-empty too.
arrayPipelineKeepsEmpty(c, fullList, nd) ==
    LET deduped == IF c.DeduplicateArrays THEN deduplicateArray(fullList) ELSE fullList
        finalList == sampleArray(c, deduped, nd.perm)
        inferred == IF samplePanics(c, deduped) THEN Panic
                    ELSE IF c.TypeInference
                         THEN applyTypeInference(c, finalList, nd.ord)
                         ELSE Arr(finalList)
    IN IF c.NumberDeltaEncoding /\ inferred.k = "arr"
       THEN applyNumberDelta(c, inferred.v)
       ELSE inferred

\* Mutant of the array pipeline: sampling runs before deduplication.
arrayPipelineSampleFirst(c, fullList, nd) ==
    LET sampled == sampleArray(c, fullList, nd.perm)
        finalList == IF c.DeduplicateArrays THEN deduplicateArray(sampled) ELSE sampled
    IN IF samplePanics(c, fullList) THEN Panic
       ELSE IF c.StripEmpty /\ Len(finalList) = 0 THEN Null
       ELSE LET inferred == IF c.TypeInference
                            THEN applyTypeInference(c, finalList, nd.ord)
                            ELSE Arr(finalList)
            IN IF c.NumberDeltaEncoding /\ inferred.k = "arr"
               THEN applyNumberDelta(c, inferred.v)
               ELSE inferred

\* The array pipeline prune runs on the transformed, strip-filtered elements.
arrayPipeline(c, fullList, nd) ==
    LET deduped == IF c.DeduplicateArrays THEN deduplicateArray(fullList) ELSE fullList
        finalList == sampleArray(c, deduped, nd.perm)
    IN IF samplePanics(c, deduped) THEN Panic
       ELSE IF c.StripEmpty /\ Len(finalList) = 0 THEN Null
       ELSE LET inferred == IF c.TypeInference
                            THEN applyTypeInference(c, finalList, nd.ord)
                            ELSE Arr(finalList)
            IN IF c.NumberDeltaEncoding /\ inferred.k = "arr"
               THEN applyNumberDelta(c, inferred.v)
               ELSE inferred

\* prune: the value prune(data, depth) returns, or Panic when the walk ends
\* in a run-time panic, which unwinds every enclosing prune. nd holds the
\* outcomes of the call's nondeterminism: nd.ord, the order in which a range
\* over a map gives its keys, and nd.perm, the permutation rand.Perm draws.
RECURSIVE prune(_, _, _, _, _)
prune(c, pool, x, depth, nd) ==
    IF x.k = "null" THEN Null
    ELSE IF depthCut(c, depth) THEN Null
    ELSE CASE x.k = "obj" ->
                IF DOMAIN x.v = {} THEN (IF c.StripEmpty THEN Null ELSE x)
                ELSE LET kept == {key \in DOMAIN x.v : ~isBlocked(c, key)}
                         pruned == [key \in kept |-> prune(c, pool, x.v[key], depth + 1, nd)]
                         newMap == [key \in {kk \in kept : ~stripped(c, pruned[kk])} |-> pruned[key]]
                     IN IF \E key \in kept : pruned[key] = Panic THEN Panic
                        ELSE IF c.StripEmpty /\ DOMAIN newMap = {} THEN Null
                        ELSE IF c.BoolCompression
                             THEN Obj(applyBoolCompression(c, newMap, nd.ord))
                             ELSE Obj(newMap)
           [] x.k = "arr" ->
                IF Len(x.v) = 0 THEN (IF c.StripEmpty THEN Null ELSE x)
                ELSE LET pruned == [i \in 1..Len(x.v) |-> prune(c, pool, x.v[i], depth + 1, nd)]
                         fullList == SelectSeq(pruned, LAMBDA e : ~stripped(c, e))
                     IN IF \E i \in 1..Len(pruned) : pruned[i] = Panic THEN Panic
                        ELSE arrayPipeline(c, fullList, nd)
           [] x.k = "str" -> pruneString(c, pool, x.v)
           [] x.k = "num" -> pruneFloat(c, x)
           [] OTHER -> x

\* The concatenation of the sequences f[1], ..., f[n].
RECURSIVE Flatten(_)
Flatten(f) == IF Len(f) = 0 THEN <<>> ELSE Head(f) \o Flatten(Tail(f))

\* The field names prune(data, depth) appends to s.nullFields, in the order
\* it appends them.
RECURSIVE pruneNulls(_, _, _, _)
pruneNulls(c, x, depth, nd) ==
    IF x.k = "null" THEN <<>>
    ELSE IF depthCut(c, depth) THEN <<>>
    ELSE CASE x.k = "obj" ->
                LET keys == SelectSeq(Restrict(nd.ord, DOMAIN x.v), LAMBDA key : ~isBlocked(c, key))
                IN Flatten([i \in 1..Len(keys) |->
                        (IF x.v[keys[i]].k = "null" /\ c.NullCompression THEN <<keys[i]>> ELSE <<>>)
                        \o pruneNulls(c, x.v[keys[i]], depth + 1, nd)])
           [] x.k = "arr" ->
                Flatten([i \in 1..Len(x.v) |-> pruneNulls(c, x.v[i], depth + 1, nd)])
           [] OTHER -> <<>>

----------------------------------------------------------------------------
(* The statistics pass.                                                    *)

\* The sum of a function's values.
RECURSIVE SumFun(_)
SumFun(f) ==
    IF DOMAIN f = {} THEN 0
    ELSE LET d == CHOOSE d \in DOMAIN f : TRUE
         IN f[d] + SumFun([e \in DOMAIN f \ {d} |-> f[e]])

\* stringCounts[s] after collectStatsRecursive(x, ...): the string values of x
\* that equal s, strings of at most 3 bytes not being counted.
RECURSIVE stringCount(_, _)
stringCount(x, s) ==
    CASE x.k = "str" -> IF x.v = s /\ ByteLen(x.v) > 3 THEN 1 ELSE 0
      [] x.k = "arr" -> SumFun([i \in 1..Len(x.v) |-> stringCount(x.v[i], s)])
      [] x.k = "obj" -> SumFun([key \in DOMAIN x.v |-> stringCount(x.v[key], s)])
      [] OTHER -> 0

\* The string values of x.
RECURSIVE stringsIn(_)
stringsIn(x) ==
    CASE x.k = "str" -> {x.v}
      [] x.k = "arr" -> UNION {stringsIn(x.v[i]) : i \in 1..Len(x.v)}
      [] x.k = "obj" -> UNION {stringsIn(x.v[key]) : key \in DOMAIN x.v}
      [] OTHER -> {}

\* enumCandidates after collectStatsRecursive(x, fieldPath, ...), as the set
\* of <<path, string>> pairs: a string shorter than 50 bytes under a
\* non-empty dotted path.
RECURSIVE enumCandidates(_, _)
enumCandidates(x, fieldPath) ==
    CASE x.k = "obj" ->
            UNION {enumCandidates(x.v[key],
                                  IF fieldPath # <<>> THEN fieldPath \o <<46>> \o key ELSE key)
                   : key \in DOMAIN x.v}
      [] x.k = "arr" -> UNION {enumCandidates(x.v[i], fieldPath) : i \in 1..Len(x.v)}
      [] x.k = "str" ->
            IF fieldPath # <<>> /\ ByteLen(x.v) < 50 THEN {<<fieldPath, x.v>>} ELSE {}
      [] OTHER -> {}

\* The strings collectStatistics adds to the pool.
poolCandidates(c, x) ==
    IF c.StringPooling
    THEN {s \in stringsIn(x) : stringCount(x, s) >= c.StringPoolMinOccurrences /\ ByteLen(s) > 3}
    ELSE {}

\* The values enumCandidates holds for a field.
enumValues(x, field) == {p[2] : p \in {q \in enumCandidates(x, <<>>) : q[1] = field}}

\* The fields collectStatistics gives an enum pool.
enumFields(c, x) ==
    IF c.EnumDetection
    THEN {f \in {p[1] : p \in enumCandidates(x, <<>>)} :
            Cardinality(enumValues(x, f)) > 0 /\ Cardinality(enumValues(x, f)) <= c.EnumMaxValues}
    ELSE {}

\* The string pool after collectStatistics appended the strings of added, in
\* this order, to the list.
poolAfter(pool, list, added) ==
    [s \in DOMAIN pool \cup Range(added) |->
        IF s \in Range(added)
        THEN Len(list) + (CHOOSE i \in 1..Len(added) : added[i] = s) - 1
        ELSE pool[s]]

\* The enum pools after collectStatistics stored lists[f] for every field f.
enumsAfter(pools, lists) ==
    [f \in DOMAIN pools \cup DOMAIN lists |-> IF f \in DOMAIN lists THEN lists[f] ELSE pools[f]]

----------------------------------------------------------------------------
(* New and Slim.                                                           *)

\* The zero Config with DecimalPlaces -1: every option off.
DefaultConfig ==
    [MaxDepth |-> 0, MaxListLength |-> 0, MaxStringLength |-> 0, StripEmpty |-> FALSE,
     BlockList |-> {}, DecimalPlaces |-> -1, DeduplicateArrays |-> FALSE,
     SampleStrategy |-> "none", SampleSize |-> 0, NullCompression |-> FALSE,
     TypeInference |-> FALSE, BoolCompression |-> FALSE, TimestampCompression |-> FALSE,
     StringPooling |-> FALSE, StringPoolMinOccurrences |-> 0,
     NumberDeltaEncoding |-> FALSE, NumberDeltaThreshold |-> 0,
     EnumDetection |-> FALSE, EnumMaxValues |-> 0, StripUTF8Emoji |-> FALSE]

\* New: the Config of the Slimmer New(c) returns, the unset thresholds filled.
New(c) ==
    [c EXCEPT !.StringPoolMinOccurrences = IF @ = 0 THEN 2 ELSE @,
              !.NumberDeltaThreshold = IF @ = 0 THEN 5 ELSE @,
              !.EnumMaxValues = IF @ = 0 THEN 10 ELSE @]

\* The keys of the objects of x.
RECURSIVE keysIn(_)
keysIn(x) ==
    CASE x.k = "obj" -> DOMAIN x.v \cup UNION {keysIn(x.v[key]) : key \in DOMAIN x.v}
      [] x.k = "arr" -> UNION {keysIn(x.v[i]) : i \in 1..Len(x.v)}
      [] OTHER -> {}

\* The length of the longest array of x.
RECURSIVE longestArray(_)
longestArray(x) ==
    CASE x.k = "obj" ->
            IF DOMAIN x.v = {} THEN 0
            ELSE CHOOSE n \in {longestArray(x.v[key]) : key \in DOMAIN x.v} :
                    \A key \in DOMAIN x.v : longestArray(x.v[key]) <= n
      [] x.k = "arr" ->
            CHOOSE n \in {Len(x.v)} \cup {longestArray(x.v[i]) : i \in 1..Len(x.v)} :
                /\ Len(x.v) <= n
                /\ \A i \in 1..Len(x.v) : longestArray(x.v[i]) <= n
      [] OTHER -> 0

Reversed(s) == [i \in 1..Len(s) |-> s[Len(s) + 1 - i]]

\* The keys of the widest input: one more than a Go int has bits, each of
\* one code point, here in ascending order.
WideOrder == [i \in 1..(WordBits + 1) |-> <<19967 + i>>]
WideKeys == Range(WideOrder)

\* The orders a call's ranges over maps may give the keys in: every order of
\* the input's keys, the keys a rewrite inserts coming after them. Of the
\* widest input only the ascending and the descending order are followed,
\* two of the orders the runtime may give.
keyOrders(x) ==
    LET orders == IF keysIn(x) = WideKeys
                  THEN {WideOrder, Reversed(WideOrder)}
                  ELSE Orderings(keysIn(x))
    IN {ord \o <<kBools, kSchema, kData, kRange>> : ord \in orders}

\* The order of a range over a map shows in what prune returns only where it
\* builds a list in that order: nullFields, _schema, _bools.keys. Elsewhere
\* the range fills a new map, which is the same map in every order.
observesOrder(c) == c.NullCompression \/ c.TypeInference \/ c.BoolCompression

\* The permutations rand.Perm may return to sampleRandom; no other strategy
\* draws one.
permChoices(c, x) ==
    IF c.SampleStrategy = "random" /\ targetSize(c) > 0
    THEN Orderings(1..longestArray(x))
    ELSE {<<>>}

\* The lists collectStatistics may store as the enum pools of the call: every
\* qualifying field's values, once each, in any order.
enumLists(c, x) ==
    LET fields == enumFields(c, x)
        orders == UNION {Orderings(enumValues(x, f)) : f \in fields}
    IN {lists \in [fields -> orders] :
            \A f \in fields : Range(lists[f]) = enumValues(x, f)}

\* m with m[key] set to val.
withKey(m, key, val) == [kk \in DOMAIN m \cup {key} |-> IF kk = key THEN val ELSE m[kk]]

StringArray(list) == Arr([i \in 1..Len(list) |-> Str(list[i])])

\* The post-processing of Slim: the side-cars a result that is a map gets.
attachMetadata(c, list, enums, nulls, r) ==
    IF r.k # "obj" THEN r
    ELSE LET m1 == IF c.StringPooling /\ Len(list) > 0
                   THEN withKey(r.v, kStrings, StringArray(list)) ELSE r.v
             m2 == IF c.EnumDetection /\ DOMAIN enums # {}
                   THEN withKey(m1, kEnums, Obj([f \in DOMAIN enums |-> StringArray(enums[f])]))
                   ELSE m1
             m3 == IF c.NullCompression /\ Len(nulls) > 0
                   THEN withKey(m2, kNulls, StringArray(nulls)) ELSE m2
         IN Obj(m3)

\* The fields of a Slimmer that New makes empty.
FreshState == [stringPool |-> <<>>, stringList |-> <<>>, enumPools |-> <<>>, nullFields |-> <<>>]

\* The outcomes of one call's nondeterminism: added, the strings
\* collectStatistics pools in the order its range over stringCounts gives
\* them; lists, the enum lists it builds; ord and perm as for prune.
slimChoices(c, v) ==
    [added : Orderings(poolCandidates(c, v)), lists : enumLists(c, v),
     ord : IF observesOrder(c) THEN keyOrders(v) ELSE {CHOOSE ord \in keyOrders(v) : TRUE},
     perm : permChoices(c, v)]

\* prune(data, 0) returns data itself, and not a new map, for an empty map
\* that strip-empty does not turn into nil.
returnsInput(c, v) == v.k = "obj" /\ DOMAIN v.v = {} /\ ~c.StripEmpty

\* Slim(data) on a Slimmer whose fields are s: the statistics pass, the
\* recursive transform, the side-cars. The outcome is the Slimmer's fields
\* after the call, the value returned, and the caller's tree: the side-cars
\* are written into the map prune returned, which is the caller's map when
\* prune returned its argument.
slimOutcome(c, s, v, ch) ==
    LET nd == [ord |-> ch.ord, perm |-> ch.perm]
        pool2 == poolAfter(s.stringPool, s.stringList, ch.added)
        list2 == s.stringList \o ch.added
        enums2 == enumsAfter(s.enumPools, ch.lists)
        nulls2 == s.nullFields \o pruneNulls(c, v, 0, nd)
        res == attachMetadata(c, list2, enums2, nulls2, prune(c, pool2, v, 0, nd))
    IN [stringPool |-> pool2, stringList |-> list2, enumPools |-> enums2,
        nullFields |-> nulls2, result |-> res,
        tree |-> IF returnsInput(c, v) THEN res ELSE v]

\* Slim stores the map s.enumPools itself under _enums: the value returned
\* and the Slimmer hold the same map.
sharesEnums(c, r) == c.EnumDetection /\ r.k = "obj" /\ kEnums \in DOMAIN r.v

\* The value the first call returned, as its caller finds it after a call
\* whose outcome is out: as returned by the first call itself; after a later
\* call, with the entries that call's statistics pass wrote into the shared
\* enum map. The slices under _strings and _nulls keep their length and
\* elements when the Slimmer appends to its own.
heldAfter(c, h, n, out) ==
    IF n = 0 THEN [was |-> out.result, now |-> out.result]
    ELSE [h EXCEPT !.now = IF sharesEnums(c, h.now)
                           THEN Obj(withKey(h.now.v, kEnums,
                                        Obj([f \in DOMAIN out.enumPools |->
                                                StringArray(out.enumPools[f])])))
                           ELSE h.now]

\* A Slim call made while no other call runs on the Slimmer.
Slim(v) ==
    \E ch \in slimChoices(cfg, v) :
        \E out \in {slimOutcome(cfg,
                        [stringPool |-> stringPool, stringList |-> stringList,
                         enumPools |-> enumPools, nullFields |-> nullFields], v, ch)} :
           /\ stringPool' = out.stringPool
           /\ stringList' = out.stringList
           /\ enumPools' = out.enumPools
           /\ nullFields' = out.nullFields
           /\ data' = v
           /\ tree' = out.tree
           /\ result' = out.result
           /\ calls' = calls + 1
           /\ held' = heldAfter(cfg, held, calls, out)
           /\ UNCHANGED <<cfg, goroutines, parser>>

----------------------------------------------------------------------------
(* The configurations and the inputs of the model.                         *)

\* The keys "a", "b", "B" and the strings "", "A", "abcde" and the emoji
\* U+1F389 followed by "ab" (3 code points, 6 bytes).
ka == <<97>>
kb == <<98>>
kB == <<66>>
sEmpty == <<>>
sA == <<65>>
sLong == <<97, 98, 99, 100, 101>>
sEmoji == <<127881, 97, 98>>

\* 13 emoji, 52 bytes, and 50 letters.
sWide == [i \in 1..13 |-> 127881]
sFifty == [i \in 1..50 |-> 97]

\* One option of a Config set away from its default.
Options ==
    {"depth1", "depth2", "depth3", "list2", "strlen2", "strlen4", "strip", "block",
     "dec0", "dedup", "first_last", "random", "representative", "size3", "nulls",
     "infer", "bools", "timestamp", "pool", "delta", "thr2", "enum", "ascii"}

Apply(c, o) ==
    CASE o = "depth1" -> [c EXCEPT !.MaxDepth = 1]
      [] o = "depth2" -> [c EXCEPT !.MaxDepth = 2]
      [] o = "depth3" -> [c EXCEPT !.MaxDepth = 3]
      [] o = "list2" -> [c EXCEPT !.MaxListLength = 2]
      [] o = "strlen2" -> [c EXCEPT !.MaxStringLength = 2]
      [] o = "strlen4" -> [c EXCEPT !.MaxStringLength = 4]
      [] o = "strip" -> [c EXCEPT !.StripEmpty = TRUE]
      [] o = "block" -> [c EXCEPT !.BlockList = {kb}]
      [] o = "dec0" -> [c EXCEPT !.DecimalPlaces = 0]
      [] o = "dedup" -> [c EXCEPT !.DeduplicateArrays = TRUE]
      [] o = "first_last" -> [c EXCEPT !.SampleStrategy = "first_last"]
      [] o = "random" -> [c EXCEPT !.SampleStrategy = "random"]
      [] o = "representative" -> [c EXCEPT !.SampleStrategy = "representative"]
      [] o = "size3" -> [c EXCEPT !.SampleSize = 3]
      [] o = "nulls" -> [c EXCEPT !.NullCompression = TRUE]
      [] o = "infer" -> [c EXCEPT !.TypeInference = TRUE]
      [] o = "bools" -> [c EXCEPT !.BoolCompression = TRUE]
      [] o = "timestamp" -> [c EXCEPT !.TimestampCompression = TRUE]
      [] o = "pool" -> [c EXCEPT !.StringPooling = TRUE]
      [] o = "delta" -> [c EXCEPT !.NumberDeltaEncoding = TRUE]
      [] o = "thr2" -> [c EXCEPT !.NumberDeltaThreshold = 2]
      [] o = "enum" -> [c EXCEPT !.EnumDetection = TRUE]
      [] o = "ascii" -> [c EXCEPT !.StripUTF8Emoji = TRUE]
      [] OTHER -> c

\* A configuration with every transform on at once.
FullConfig ==
    [DefaultConfig EXCEPT
        !.MaxDepth = 3, !.MaxListLength = 2, !.MaxStringLength = 4, !.StripEmpty = TRUE,
        !.BlockList = {kb}, !.DecimalPlaces = 0, !.DeduplicateArrays = TRUE,
        !.SampleStrategy = "first_last", !.SampleSize = 3, !.NullCompression = TRUE,
        !.TypeInference = TRUE, !.BoolCompression = TRUE, !.TimestampCompression = TRUE,
        !.StringPooling = TRUE, !.NumberDeltaEncoding = TRUE, !.NumberDeltaThreshold = 2,
        !.EnumDetection = TRUE, !.StripUTF8Emoji = TRUE]

\* Config{}: the Config whose fields the caller did not set, each at Go's
\* zero value.
ZeroConfig == [DefaultConfig EXCEPT !.DecimalPlaces = 0]

\* The built-in profile "medium", which is also the configuration the HTTP
\* handler uses when the request names no profile: the three fields set, the
\* others at their zero values.
MediumProfile ==
    [ZeroConfig EXCEPT !.MaxDepth = 5, !.MaxListLength = 10, !.StripEmpty = TRUE]

\* Enum detection that admits one distinct value per field.
EnumOne == [DefaultConfig EXCEPT !.EnumDetection = TRUE, !.EnumMaxValues = 1]

\* Configs a config file or the command line can give: a negative sample
\* size under each strategy; the other integers negative, with the
\* transforms that read them enabled; a strategy of no known name.
NegativeSampleSize ==
    {[DefaultConfig EXCEPT !.SampleSize = -1, !.SampleStrategy = s] :
        s \in {"none", "first_last", "random", "representative"}}
NegativeLimits ==
    [DefaultConfig EXCEPT
        !.MaxDepth = -1, !.MaxListLength = -1, !.MaxStringLength = -1, !.DecimalPlaces = -2,
        !.StringPooling = TRUE, !.StringPoolMinOccurrences = -1,
        !.NumberDeltaEncoding = TRUE, !.NumberDeltaThreshold = -1,
        !.EnumDetection = TRUE, !.EnumMaxValues = -1]
UnknownStrategy == [DefaultConfig EXCEPT !.SampleStrategy = "bogus", !.SampleSize = 2]

\* The configurations: the default, every one and every two options set, the
\* full one, the zero Config, the profile, the narrow enum detection, and
\* the configs of negative integers and of an unknown strategy.
Configs ==
    {Apply(Apply(DefaultConfig, a), b) : a, b \in Options}
        \cup {DefaultConfig, FullConfig, ZeroConfig, MediumProfile, EnumOne}
        \cup NegativeSampleSize \cup {NegativeLimits, UnknownStrategy}

\* The longest array of scalars and the deepest wrapping among the inputs.
MaxLen == 3
MaxNest == 2

Scalars ==
    {Null, Bool(TRUE), Bool(FALSE), Num(2), Num(3), Num(4), GoInt(65),
     Str(sEmpty), Str(sA), Str(sLong), Str(sEmoji)}

\* Arrays of numbers and null, and arrays of strings and an int.
NumberElems == {Null, Num(2), Num(3), Num(4)}
TextElems == {Str(sEmpty), Str(sA), Str(sLong), GoInt(65)}
FlatArrays ==
    {Arr(s) : s \in UNION {[1..n -> NumberElems] \cup [1..n -> TextElems] : n \in 0..MaxLen}}

\* Objects over the keys a, b, B.
FieldValues == {Null, Bool(TRUE), Num(3), Str(sEmpty), Str(sLong), Str(sEmoji)}
FlatObjects ==
    {Obj(f) : f \in UNION {[D -> FieldValues] : D \in SUBSET {ka, kb, kB}}}

\* Arrays of three objects of no, one or two fields.
Rows ==
    {Obj(f) : f \in [{ka} -> {Num(2), Bool(TRUE)}] \cup [{ka, kb} -> {Num(2), Bool(TRUE)}]}
        \cup {Obj(<<>>)}
RowArrays == {Arr(s) : s \in [1..3 -> Rows]}

\* A value wrapped in one-element arrays and one-field objects, n deep.
Cores ==
    {Num(2), Str(sLong), Arr(<<>>), Obj(<<>>), Arr(<<Num(2), Num(4), Null>>),
     Obj([key \in {ka} |-> Num(2)])}
RECURSIVE Wrapped(_)
Wrapped(n) ==
    IF n = 0 THEN Cores
    ELSE LET inner == Wrapped(n - 1)
         IN inner \cup {Arr(<<x>>) : x \in inner} \cup {Obj([key \in {ka} |-> x]) : x \in inner}
                  \cup {Obj([key \in {kb} |-> x]) : x \in inner}

\* The numbers 1..5.
Consecutive == Arr([i \in 1..5 |-> Num(2 * i)])

\* 1, 2, 3, 4, 5.00005 and 1, 2.00005: the last number is 0.00005 above the
\* next whole number.
NearConsecutive ==
    {Arr([i \in 1..5 |-> IF i = 5 THEN NumNear(10, 1) ELSE Num(2 * i)]),
     Arr(<<Num(2), NumNear(4, 1)>>)}

\* An object of one boolean field more than a Go int has bits, all true.
WideObject == Obj([key \in WideKeys |-> Bool(TRUE)])

\* Objects of three boolean fields.
BoolObjects == {Obj(f) : f \in [{ka, kb, kB} -> {Bool(TRUE), Bool(FALSE)}]}

\* Fields of two distinct strings, of a string of 13 code points in 52
\* bytes, and of a string of 50 code points.
EnumObjects ==
    {Obj([key \in {ka} |-> Arr(<<Str(sA), Str(sLong)>>)]),
     Obj([key \in {ka} |-> Str(sWide)]),
     Obj([key \in {ka} |-> Str(sFifty)]),
     Obj([key \in {ka, kb} |-> IF key = ka THEN Str(sFifty) ELSE Str(sLong)])}

\* 1, 1, 1, 2, 3.
Repeated == Arr(<<Num(2), Num(2), Num(2), Num(4), Num(6)>>)

Inputs ==
    {Repeated} \cup Scalars \cup FlatArrays \cup FlatObjects \cup RowArrays \cup Wrapped(MaxNest)
        \cup {Consecutive, WideObject} \cup NearConsecutive \cup BoolObjects \cup EnumObjects

----------------------------------------------------------------------------
(* The state machine: a Slimmer fresh from New, then one Slim call.        *)

Init ==
    /\ cfg \in {New(c) : c \in Configs}
    /\ stringPool = <<>>
    /\ stringList = <<>>
    /\ enumPools = <<>>
    /\ nullFields = <<>>
    /\ data = NoValue
    /\ tree = NoValue
    /\ result = NoValue
    /\ calls = 0
    /\ goroutines = <<>>
    /\ held = NoValue
    /\ parser = NoValue

Next == calls = 0 /\ \E v \in Inputs : Slim(v)

Spec == Init /\ [][Next]_vars

----------------------------------------------------------------------------
(* A Slimmer that is reused: Slim calls one after another.                 *)

\* The calls made on one Slimmer.
MaxCalls == 2

ReuseOptions == {"pool", "nulls", "enum", "strip", "bools", "dedup"}
ReuseConfigs == {Apply(Apply(DefaultConfig, a), b) : a, b \in ReuseOptions} \cup {DefaultConfig}

ReuseInputs ==
    {Obj(<<>>), Arr(<<>>), Str(sLong), Num(3),
     Obj([key \in {ka} |-> Null]),
     Obj([key \in {ka} |-> Str(sLong)]),
     Obj([key \in {ka, kb} |-> Str(sLong)]),
     Obj([key \in {ka, kb} |-> IF key = ka THEN Num(3) ELSE Null]),
     Obj([key \in {ka, kb, kB} |-> Bool(key = ka)]),
     Arr(<<Str(sLong), Str(sLong)>>),
     Arr(<<Str(sA), Str(sLong), Str(sA)>>)}

InitReuse ==
    /\ cfg \in {New(c) : c \in ReuseConfigs}
    /\ stringPool = <<>>
    /\ stringList = <<>>
    /\ enumPools = <<>>
    /\ nullFields = <<>>
    /\ data = NoValue
    /\ tree = NoValue
    /\ result = NoValue
    /\ calls = 0
    /\ goroutines = <<>>
    /\ held = NoValue
    /\ parser = NoValue

NextReuse == calls < MaxCalls /\ \E v \in ReuseInputs : Slim(v)

SpecReuse == InitReuse /\ [][NextReuse]_vars

----------------------------------------------------------------------------
(* A Slimmer that goroutines share: each calls Slim once, and the steps of *)
(* the calls interleave. A step is one pass of Slim over the Slimmer's     *)
(* fields, which no lock guards.                                           *)

Goroutines == {1, 2}

ConcurrentOptions == {"pool", "nulls", "enum"}
ConcurrentConfigs ==
    {Apply(Apply(DefaultConfig, a), b) : a, b \in ConcurrentOptions} \cup {DefaultConfig}

ConcurrentInputs ==
    {Obj([key \in {ka} |-> Null]),
     Obj([key \in {kb} |-> Num(3)]),
     Obj([key \in {ka, kb} |-> Str(sLong)]),
     Obj([key \in {kB} |-> Str(sA)]),
     Obj([key \in {ka, kb, kB} |-> IF key = ka THEN Null ELSE Str(sLong)])}

InitConcurrent ==
    /\ cfg \in {New(c) : c \in ConcurrentConfigs}
    /\ stringPool = <<>>
    /\ stringList = <<>>
    /\ enumPools = <<>>
    /\ nullFields = <<>>
    /\ data = NoValue
    /\ tree = NoValue
    /\ result = NoValue
    /\ calls = 0
    /\ goroutines = [g \in Goroutines |-> [pc |-> "idle", data |-> NoValue,
                                            pruned |-> NoValue, result |-> NoValue]]
    /\ held = NoValue
    /\ parser = NoValue

\* Goroutine g calls Slim(v).
Call(g, v) ==
    /\ goroutines[g].pc = "idle"
    /\ goroutines' = [goroutines EXCEPT ![g].pc = "called", ![g].data = v]
    /\ UNCHANGED <<cfg, stringPool, stringList, enumPools, nullFields, data, tree, result, calls, held, parser>>

\* collectStatistics writes at least one of the Slimmer's maps for v.
writesMaps(c, v) == poolCandidates(c, v) # {} \/ enumFields(c, v) # {}

\* The first pass of g's call: collectStatistics.
Collect(g) ==
    /\ goroutines[g].pc = "called"
    /\ \E ch \in slimChoices(cfg, goroutines[g].data) :
            /\ stringPool' = poolAfter(stringPool, stringList, ch.added)
            /\ stringList' = stringList \o ch.added
            /\ enumPools' = enumsAfter(enumPools, ch.lists)
    /\ goroutines' = [goroutines EXCEPT ![g].pc = "collected"]
    /\ UNCHANGED <<cfg, nullFields, data, tree, result, calls, held, parser>>

\* Mutant of the second pass: prune adds a string it meets to the list.
PruneExtendsList(g) ==
    /\ goroutines[g].pc = "collected"
    /\ stringList' = stringList \o <<sA>>
    /\ goroutines' = [goroutines EXCEPT ![g].pc = "pruned"]
    /\ UNCHANGED <<cfg, stringPool, enumPools, nullFields, data, tree, result, calls, held, parser>>

\* The second pass of g's call: prune, which reads stringPool and appends to
\* nullFields.
Prune(g) ==
    /\ goroutines[g].pc = "collected"
    /\ \E ch \in slimChoices(cfg, goroutines[g].data) :
            LET nd == [ord |-> ch.ord, perm |-> ch.perm]
            IN /\ nullFields' = nullFields \o pruneNulls(cfg, goroutines[g].data, 0, nd)
               /\ goroutines' =
                      [goroutines EXCEPT
                          ![g].pc = "pruned",
                          ![g].pruned = prune(cfg, stringPool, goroutines[g].data, 0, nd)]
    /\ UNCHANGED <<cfg, stringPool, stringList, enumPools, data, tree, result, calls, held, parser>>

\* The post-processing of g's call, which reads stringList, enumPools and
\* nullFields as they then are, and the return.
Attach(g) ==
    /\ goroutines[g].pc = "pruned"
    /\ goroutines' =
           [goroutines EXCEPT
               ![g].pc = "done",
               ![g].result = attachMetadata(cfg, stringList, enumPools, nullFields,
                                            goroutines[g].pruned)]
    /\ UNCHANGED <<cfg, stringPool, stringList, enumPools, nullFields, data, tree, result, calls, held, parser>>

\* Two first passes that overlap and both write a map of the Slimmer: the
\* runtime may end the program with "fatal error: concurrent map writes".
FatalError ==
    /\ \A g \in Goroutines :
            goroutines[g].pc = "called" /\ writesMaps(cfg, goroutines[g].data)
    /\ goroutines' = [g \in Goroutines |-> [goroutines[g] EXCEPT !.pc = "fatal"]]
    /\ UNCHANGED <<cfg, stringPool, stringList, enumPools, nullFields, data, tree, result, calls, held, parser>>

NextConcurrent ==
    \/ \E g \in Goroutines, v \in ConcurrentInputs : Call(g, v)
    \/ \E g \in Goroutines : Collect(g)
    \/ \E g \in Goroutines : Prune(g)
    \/ \E g \in Goroutines : Attach(g)
    \/ FatalError

SpecConcurrent == InitConcurrent /\ [][NextConcurrent]_vars

----------------------------------------------------------------------------
(* ParseConfigFile: a file of lines is scanned, one line to a step of the  *)
(* loop, and the profiles are returned.                                    *)

\* The longest file.
MaxLines == 4

\* The lines of a file, after TrimSpace: a blank line or a comment; a
\* header [name], the name trimmed; key=value lines of an integer key and of
\* the blocklist, whose value may be empty; a line that is neither.
Names == {"a", "b", ""}
Lines ==
    {[k |-> "blank"], [k |-> "invalid"]}
        \cup {[k |-> "header", name |-> n] : n \in Names}
        \cup {[k |-> "set", key |-> "depth", value |-> d] : d \in {1, 2}}
        \cup {[k |-> "set", key |-> "block", value |-> b] : b \in {{}, {kb}}}
Files == UNION {[1..n -> Lines] : n \in 0..MaxLines}

\* applyConfigParameter for the two keys: Atoi of the depth; the blocklist
\* split at the commas, unless the value is empty.
applyConfigParameter(c, key, value) ==
    CASE key = "depth" -> [c EXCEPT !.MaxDepth = value]
      [] key = "block" -> IF value # {} THEN [c EXCEPT !.BlockList = value] ELSE c

\* Mutant of the section start: the settings of the section before stay.
sectionConfigKept(current) == current

\* The config a section starts from: Config{DecimalPlaces: -1}.
sectionConfig(current) == [ZeroConfig EXCEPT !.DecimalPlaces = -1]

\* profiles[currentProfile] = currentConfig, if a profile is open.
saveProfile(p) ==
    IF p.currentProfile # ""
    THEN withKey(p.profiles, p.currentProfile, p.currentConfig)
    ELSE p.profiles

InitConfig ==
    /\ parser \in {[file |-> f, lineNum |-> 0, profiles |-> <<>>, currentProfile |-> "",
                    currentConfig |-> ZeroConfig, pc |-> "scan"] : f \in Files}
    /\ cfg = New(DefaultConfig)
    /\ stringPool = <<>>
    /\ stringList = <<>>
    /\ enumPools = <<>>
    /\ nullFields = <<>>
    /\ data = NoValue
    /\ tree = NoValue
    /\ result = NoValue
    /\ calls = 0
    /\ goroutines = <<>>
    /\ held = NoValue

\* One turn of the scanner loop.
ScanLine ==
    /\ parser.pc = "scan"
    /\ parser.lineNum < Len(parser.file)
    /\ LET line == parser.file[parser.lineNum + 1]
           next == [parser EXCEPT !.lineNum = @ + 1]
       IN parser' =
            CASE line.k = "blank" -> next
              [] line.k = "header" ->
                    [next EXCEPT !.profiles = saveProfile(parser),
                                 !.currentProfile = line.name,
                                 !.currentConfig = sectionConfig(parser.currentConfig)]
              [] line.k = "set" ->
                    [next EXCEPT !.currentConfig =
                                    applyConfigParameter(parser.currentConfig, line.key, line.value)]
              [] line.k = "invalid" -> [next EXCEPT !.pc = "error", !.profiles = <<>>]
    /\ UNCHANGED <<cfg, stringPool, stringList, enumPools, nullFields, data, tree, result,
                   calls, goroutines, held>>

\* The end of the file: the last profile is saved and the profiles returned.
ReturnProfiles ==
    /\ parser.pc = "scan"
    /\ parser.lineNum = Len(parser.file)
    /\ parser' = [parser EXCEPT !.profiles = saveProfile(parser), !.pc = "returned"]
    /\ UNCHANGED <<cfg, stringPool, stringList, enumPools, nullFields, data, tree, result,
                   calls, goroutines, held>>

NextConfig == ScanLine \/ ReturnProfiles

SpecConfig == InitConfig /\ [][NextConfig]_vars

----------------------------------------------------------------------------
(* Properties.                                                             *)

\* A Slim call has returned.
Returned == calls = 1

\* The choices of a call that makes none.
NoChoice == [ord |-> <<kBools, kSchema, kData, kRange>>, perm |-> <<>>]

\* The objects {a: x} and {b: x}.
ObjA(x) == Obj([key \in {ka} |-> x])
ObjB(x) == Obj([key \in {kb} |-> x])

\* C1. Identity: with the all-default configuration Slim returns a value
\* structurally equal to its input.
C1_Identity == (Returned /\ cfg = New(DefaultConfig)) => result = data

\* The default configuration returned an object with a null and an empty
\* string among its fields as it was.
C1_Witness ==
    /\ Returned
    /\ cfg = New(DefaultConfig)
    /\ data.k = "obj"
    /\ \E key \in DOMAIN data.v : data.v[key] = Null
    /\ \E key \in DOMAIN data.v : data.v[key] = Str(sEmpty)
    /\ result = data

\* x with every node at depth d or deeper replaced by null, depth being the
\* depth of x; d = 0 replaces nothing.
RECURSIVE Truncated(_, _, _)
Truncated(x, depth, d) ==
    IF d > 0 /\ depth >= d THEN Null
    ELSE CASE x.k = "obj" -> Obj([key \in DOMAIN x.v |-> Truncated(x.v[key], depth + 1, d)])
           [] x.k = "arr" -> Arr([i \in 1..Len(x.v) |-> Truncated(x.v[i], depth + 1, d)])
           [] OTHER -> x

\* The configuration sets nothing but the maximum depth.
DepthOnly == cfg = New([DefaultConfig EXCEPT !.MaxDepth = cfg.MaxDepth])

\* C3. Depth gate: with max-depth d > 0 the root is never truncated and every
\* input node at depth >= d becomes null whatever its kind, never an empty
\* container; with max-depth 0 nothing is replaced. With nothing but the
\* depth set, the result is the input so truncated; under every
\* configuration, every kind of node visited at depth d or deeper gives null.
C3_DepthGate ==
    Returned =>
        /\ DepthOnly => result = Truncated(data, 0, cfg.MaxDepth)
        /\ (cfg.MaxDepth > 0 /\ data # Null /\ result = Null) => cfg.StripEmpty
        /\ cfg.MaxDepth > 0 =>
                \A x \in Scalars \cup Cores, depth \in cfg.MaxDepth..(cfg.MaxDepth + 1) :
                    prune(cfg, stringPool, x, depth, NoChoice) = Null

\* {"a":{"b":{"a":1}}} with max-depth 2 gave {"a":{"b":null}}.
C3_Witness ==
    /\ Returned
    /\ DepthOnly
    /\ cfg.MaxDepth = 2
    /\ data = ObjA(ObjB(ObjA(Num(2))))
    /\ result = ObjA(ObjB(Null))

\* No node of x at depth d or deeper is other than null, depth being the
\* depth of x.
RECURSIVE NothingBelow(_, _, _)
NothingBelow(x, depth, d) ==
    IF depth >= d THEN x = Null
    ELSE CASE x.k = "obj" -> \A key \in DOMAIN x.v : NothingBelow(x.v[key], depth + 1, d)
           [] x.k = "arr" -> \A i \in 1..Len(x.v) : NothingBelow(x.v[i], depth + 1, d)
           [] OTHER -> TRUE

\* A transform that adds levels of its own is on: a side-car or a rewrite.
AddsLevels(c) ==
    \/ c.TypeInference
    \/ c.BoolCompression
    \/ c.NumberDeltaEncoding
    \/ c.StringPooling
    \/ c.EnumDetection
    \/ c.NullCompression

\* C2 as claimed. Depth bound: for every configuration with max-depth d > 0,
\* whatever else is enabled, the returned value has no non-null node at
\* depth >= d.
C2_Claimed == (Returned /\ cfg.MaxDepth > 0) => NothingBelow(result, 0, cfg.MaxDepth)

\* C2 as amended. Depth bound: for every configuration with max-depth d > 0
\* in which type inference, bool compression, number-delta, string pooling,
\* enum detection and null compression are off, the returned value has no
\* non-null node at depth >= d.
C2_DepthBound ==
    (Returned /\ cfg.MaxDepth > 0 /\ ~AddsLevels(cfg)) => NothingBelow(result, 0, cfg.MaxDepth)

\* [[[1,2,null]]] with max-depth 2, and no transform that adds levels, came
\* back as [[null]].
C2_Witness ==
    /\ Returned
    /\ cfg.MaxDepth = 2
    /\ ~AddsLevels(cfg)
    /\ data = Arr(<<Arr(<<Arr(<<Num(2), Num(4), Null>>)>>)>>)
    /\ result = Arr(<<Arr(<<Null>>)>>)

\* The top-level _enums side-car of a result, when the call attached one.
HasEnums(c, r) == c.EnumDetection /\ r.k = "obj" /\ kEnums \in DOMAIN r.v

\* No field value and no array element of x, at any depth, is null, an empty
\* string, an empty array or an empty object.
RECURSIVE NoEmptyInside(_)
NoEmptyInside(x) ==
    CASE x.k = "obj" ->
            \A key \in DOMAIN x.v :
                /\ x.v[key] \notin {Null, Str(<<>>), Arr(<<>>), Obj(<<>>)}
                /\ NoEmptyInside(x.v[key])
      [] x.k = "arr" ->
            \A i \in 1..Len(x.v) :
                /\ x.v[i] \notin {Null, Str(<<>>), Arr(<<>>), Obj(<<>>)}
                /\ NoEmptyInside(x.v[i])
      [] OTHER -> TRUE

\* r without its top-level field key.
Without(r, key) == Obj([kk \in DOMAIN r.v \ {key} |-> r.v[kk]])

\* C4. Strip-empty invariant: with strip-empty enabled the returned value
\* contains no null, empty string, empty array or empty object as a field
\* value or array element at any depth, side-cars included.
C4_Claimed == (Returned /\ cfg.StripEmpty) => NoEmptyInside(result)

\* C4 outside the _enums side-car: with strip-empty enabled nothing but the
\* value lists of _enums holds a null, an empty string, an empty array or an
\* empty object, and _enums itself is neither empty nor has an empty list.
C4_OutsideEnums ==
    (Returned /\ cfg.StripEmpty) =>
        /\ NoEmptyInside(IF HasEnums(cfg, result) THEN Without(result, kEnums) ELSE result)
        /\ HasEnums(cfg, result) => result.v[kEnums] \notin {Null, Arr(<<>>), Obj(<<>>)}
        /\ HasEnums(cfg, result) =>
                \A f \in DOMAIN result.v[kEnums].v : result.v[kEnums].v[f] # Arr(<<>>)

\* Only strip-empty is enabled.
StripOnly == cfg = New([DefaultConfig EXCEPT !.StripEmpty = TRUE])

\* What a further Slim call of the same configuration returns for x, for a
\* configuration without pooling, enum detection and null compression, which
\* keeps no state and attaches no side-car.
SlimAgain(x) == prune(cfg, <<>>, x, 0, NoChoice)

\* C5. Strip-empty is idempotent: when only strip-empty is enabled,
\* Slim(Slim(v)) equals Slim(v).
C5_Idempotent == (Returned /\ StripOnly) => SlimAgain(result) = result

\* Strip-empty alone removed a null field and an empty-string field, kept
\* the third field, and slimming the result again gave the result.
C5_Witness ==
    /\ Returned
    /\ StripOnly
    /\ data = Obj([key \in {ka, kb, kB} |->
                    IF key = ka THEN Null ELSE IF key = kb THEN Str(sEmpty) ELSE Str(sLong)])
    /\ result = Obj([key \in {kB} |-> Str(sLong)])
    /\ SlimAgain(result) = result

\* No object of x, at any depth, has a key that equals a blocklist entry,
\* letter case ignored.
RECURSIVE NoBlockedKey(_, _)
NoBlockedKey(c, x) ==
    CASE x.k = "obj" ->
            \A key \in DOMAIN x.v : ~isBlocked(c, key) /\ NoBlockedKey(c, x.v[key])
      [] x.k = "arr" -> \A i \in 1..Len(x.v) : NoBlockedKey(c, x.v[i])
      [] OTHER -> TRUE

\* C6. Blocklist: no object anywhere in the returned value, side-car objects
\* such as _enums included, has a key that case-insensitively equals a
\* blocklist entry.
C6_Claimed == Returned => NoBlockedKey(cfg, result)

\* C6 without enum detection: no object of the returned value has a blocked
\* key.
C6_WithoutEnums ==
    (Returned /\ ~cfg.EnumDetection) => NoBlockedKey(cfg, result)

\* The keys the engine writes: the side-cars and the rewrites.
EngineKeys == {kStrings, kEnums, kNulls, kBools, kSchema, kData, kRange}

\* Every array of x that comes from an input array has at most n elements:
\* the plain arrays and the row list _data, neither the rows, which come from
\* objects, nor the lists of the other engine keys.
RECURSIVE ListsBounded(_, _)
ListsBounded(x, n) ==
    CASE x.k = "obj" ->
            \A key \in DOMAIN x.v :
                IF key = kData /\ x.v[key].k = "arr"
                THEN /\ Len(x.v[key].v) <= n
                     /\ \A i \in 1..Len(x.v[key].v) :
                            \A j \in 1..Len(x.v[key].v[i].v) :
                                ListsBounded(x.v[key].v[i].v[j], n)
                ELSE key \in EngineKeys \/ ListsBounded(x.v[key], n)
      [] x.k = "arr" -> Len(x.v) <= n /\ \A i \in 1..Len(x.v) : ListsBounded(x.v[i], n)
      [] OTHER -> TRUE

\* x with every array cut to its first n elements.
RECURSIVE CutLists(_, _)
CutLists(x, n) ==
    CASE x.k = "obj" -> Obj([key \in DOMAIN x.v |-> CutLists(x.v[key], n)])
      [] x.k = "arr" ->
            IF Len(x.v) = 0 THEN x
            ELSE LET m == IF Len(x.v) < n THEN Len(x.v) ELSE n
                 IN Arr([i \in 1..m |-> CutLists(x.v[i], n)])
      [] OTHER -> x

\* The configuration truncates lists and neither samples them nor rewrites
\* arrays or objects.
PlainLists(c) ==
    /\ c.SampleStrategy \notin {"first_last", "random", "representative"}
    /\ c.SampleSize = 0
    /\ ~AddsLevels(c)

Limited(s, L) ==
    IF Len(s) <= L THEN s
    ELSE IF L > 3 THEN SubSeq(s, 1, L - 3) \o <<46, 46, 46>>
    ELSE SubSeq(s, 1, L)

\* The elements of an array and of its transform correspond one to one.
SameElements(c, x, r) ==
    /\ r.k = "arr"
    /\ Len(r.v) = Len(x.v)
    /\ ~c.StripEmpty
    /\ ~c.DeduplicateArrays
    /\ targetSize(c) = 0

\* r being the transform of the input node x at depth, every non-empty string
\* of x that the depth gate does not cut and no blocklist entry, strip-empty
\* element removal, deduplication or sampling removes is in r as the
\* truncation rule gives it.
RECURSIVE StringsLimited(_, _, _, _)
StringsLimited(c, x, r, depth) ==
    IF depthCut(c, depth) THEN TRUE
    ELSE CASE x.k = "str" -> x.v = <<>> \/ r = Str(Limited(x.v, c.MaxStringLength))
           [] x.k = "obj" ->
                \A key \in DOMAIN x.v :
                    \/ isBlocked(c, key)
                    \/ x.v[key].k \notin {"str", "obj", "arr"}
                    \/ r.k = "obj" /\ key \in DOMAIN r.v
                            /\ StringsLimited(c, x.v[key], r.v[key], depth + 1)
                    \/ /\ c.StripEmpty
                       /\ r.k = "null" \/ (r.k = "obj" /\ key \notin DOMAIN r.v)
                       /\ x.v[key].k # "str" \/ x.v[key].v = <<>> \/ depthCut(c, depth + 1)
           [] x.k = "arr" ->
                SameElements(c, x, r) =>
                    \A i \in 1..Len(x.v) : StringsLimited(c, x.v[i], r.v[i], depth + 1)
           [] OTHER -> TRUE

\* C8. String truncation: with max-string-length = L > 0 and neither
\* strip-non-ASCII nor string pooling, a non-empty input string that the
\* depth gate does not cut is output with exactly L code points when it has
\* more than L: the first L - 3 followed by "..." if L > 3, the first L if
\* L <= 3; a string of at most L code points is output unchanged. Lengths
\* are in code points, not bytes.
C8_Truncation ==
    (Returned /\ cfg.MaxStringLength > 0 /\ ~cfg.StripUTF8Emoji /\ ~cfg.StringPooling) =>
        StringsLimited(cfg, data, result, 0)

\* With L = 4 a field of 5 code points came back as "a..." and a field of 3
\* code points, 6 bytes, came back unchanged.
C8_Witness ==
    /\ Returned
    /\ cfg.MaxStringLength = 4
    /\ ~cfg.StripUTF8Emoji /\ ~cfg.StringPooling
    /\ data.k = "obj" /\ DOMAIN data.v = {ka, kb}
    /\ data.v[ka] = Str(sLong) /\ data.v[kb] = Str(sEmoji)
    /\ result.k = "obj" /\ DOMAIN result.v = {ka, kb}
    /\ result.v[ka] = Str(<<97, 46, 46, 46>>) /\ result.v[kb] = Str(sEmoji)

\* With L = 2 a string of 3 code points came back as its first 2 code points.
C8_WitnessShort ==
    /\ Returned
    /\ cfg.MaxStringLength = 2
    /\ ~cfg.StripUTF8Emoji /\ ~cfg.StringPooling
    /\ data = Str(sEmoji)
    /\ result = Str(<<127881, 97>>)

\* Only deduplication is enabled.
DedupOnly == cfg = New([DefaultConfig EXCEPT !.DeduplicateArrays = TRUE])

\* C9. Deduplication is sound: an element is removed from an array only if a
\* structurally equal element occurs earlier in the same array; so each
\* element of an input array of scalars is, with deduplication alone, an
\* element of the output array.
C9_Claimed ==
    (Returned /\ DedupOnly /\ data.k = "arr" /\ \A i \in 1..Len(data.v) : IsScalar(data.v[i])) =>
        /\ result.k = "arr"
        /\ \A i \in 1..Len(data.v) : \E j \in 1..Len(result.v) : result.v[j] = data.v[i]

\* No array of x that comes from an input array holds a scalar twice.
RECURSIVE NoRepeats(_)
NoRepeats(x) ==
    CASE x.k = "obj" ->
            \A key \in DOMAIN x.v :
                IF key = kData /\ x.v[key].k = "arr"
                THEN \A i \in 1..Len(x.v[key].v) :
                        \A j \in 1..Len(x.v[key].v[i].v) : NoRepeats(x.v[key].v[i].v[j])
                ELSE key \in EngineKeys \/ NoRepeats(x.v[key])
      [] x.k = "arr" ->
            /\ \A i, j \in 1..Len(x.v) : (IsScalar(x.v[i]) /\ x.v[i] = x.v[j]) => i = j
            /\ \A i \in 1..Len(x.v) : NoRepeats(x.v[i])
      [] OTHER -> TRUE

\* The first index of e in the sequence s, 0 if e is not in s.
FirstIndex(s, e) ==
    IF \E i \in 1..Len(s) : s[i] = e
    THEN CHOOSE i \in 1..Len(s) : s[i] = e /\ \A j \in 1..(i - 1) : s[j] # e
    ELSE 0

\* The transformed elements of a root array of scalars, before strip-empty
\* filtering: each is transformed by itself.
Elements == [i \in 1..Len(data.v) |-> prune(cfg, stringPool, data.v[i], 1, NoChoice)]

\* C10. Deduplication is complete for scalars and keeps the order: with
\* deduplication enabled no array holds two equal scalars, only the first of
\* them being kept, and the elements that survive are in the order of their
\* first occurrence in the input array (the random sample apart, which
\* orders them by its permutation).
C10_Complete ==
    (Returned /\ cfg.DeduplicateArrays) =>
        /\ NoRepeats(result)
        /\ (/\ cfg.SampleStrategy # "random"
            /\ data.k = "arr" /\ (\A i \in 1..Len(data.v) : IsScalar(data.v[i]))
            /\ result.k = "arr") =>
                /\ \A j \in 1..Len(result.v) : FirstIndex(Elements, result.v[j]) > 0
                /\ \A j, k \in 1..Len(result.v) :
                        j < k => FirstIndex(Elements, result.v[j]) < FirstIndex(Elements, result.v[k])
        /\ (DedupOnly /\ data.k = "arr" /\ (\A i \in 1..Len(data.v) : IsScalar(data.v[i]))) =>
                /\ result.k = "arr"
                /\ Len(result.v) > 0 => result.v[1] = data.v[1]

\* ["A", "abcde", "A"] with deduplication alone came back as ["A", "abcde"].
C10_Witness ==
    /\ Returned
    /\ DedupOnly
    /\ data = Arr(<<Str(sA), Str(sLong), Str(sA)>>)
    /\ result = Arr(<<Str(sA), Str(sLong)>>)

\* Only the first_last strategy and its sizes are set.
FirstLastOnly ==
    cfg = New([DefaultConfig EXCEPT !.SampleStrategy = "first_last",
                                    !.SampleSize = cfg.SampleSize,
                                    !.MaxListLength = cfg.MaxListLength])

\* The target size of the claim: the sample size, or the max list length
\* when the sample size is 0.
Target == IF cfg.SampleSize # 0 THEN cfg.SampleSize ELSE cfg.MaxListLength

\* The input is an array of scalars.
ScalarArray == data.k = "arr" /\ \A i \in 1..Len(data.v) : IsScalar(data.v[i])

\* C11. first_last sampling: with a target size n, 0 < n < len, the array
\* becomes its first floor(n/2) elements followed by its last n - floor(n/2)
\* elements, n elements in their original order; an array with len <= n is
\* left unchanged.
C11_FirstLast ==
    (Returned /\ FirstLastOnly /\ Target > 0 /\ ScalarArray) =>
        /\ result.k = "arr"
        /\ Len(data.v) <= Target => result = data
        /\ Len(data.v) > Target =>
                /\ Len(result.v) = Target
                /\ \A i \in 1..Target :
                        result.v[i] = IF i <= Target \div 2
                                      THEN data.v[i]
                                      ELSE data.v[Len(data.v) - Target + i]

\* 1..5 with first_last and size 3 came back as 1, 4, 5.
C11_Witness ==
    /\ Returned
    /\ FirstLastOnly
    /\ Target = 3
    /\ data = Consecutive
    /\ result = Arr(<<Num(2), Num(8), Num(10)>>)

\* Only type inference is enabled.
InferOnly == cfg = New([DefaultConfig EXCEPT !.TypeInference = TRUE])

\* The array has at least 3 elements, all objects, each with the key set of
\* the first.
Uniform(arr) ==
    /\ Len(arr) >= 3
    /\ \A i \in 1..Len(arr) : arr[i].k = "obj"
    /\ \A i \in 1..Len(arr) : DOMAIN arr[i].v = DOMAIN arr[1].v

\* r is an object of exactly the fields _schema and _data.
IsSchemaData(r) == r.k = "obj" /\ DOMAIN r.v = {kSchema, kData}

\* The array of objects that {_schema, _data} stands for.
Rebuilt(r) ==
    LET schema == r.v[kSchema].v
        rows == r.v[kData].v
    IN Arr([i \in 1..Len(rows) |->
            Obj([key \in {schema[j].v : j \in 1..Len(schema)} |->
                    rows[i].v[CHOOSE j \in 1..Len(schema) : schema[j].v = key]])])

\* C12. Type inference round trip: with type inference enabled an array is
\* replaced by {_schema, _data} exactly when it has at least 3 elements, all
\* objects with the key set of the first; _schema lists that key set once
\* each, _data has a row per element in element order, and _data[i][j] is
\* element i's value under _schema[j], so that the array can be rebuilt. In
\* every other case the array is returned unchanged.
C12_RoundTrip ==
    (Returned /\ InferOnly /\ data.k = "arr") =>
        /\ Uniform(data.v) =>
                /\ IsSchemaData(result)
                /\ Len(result.v[kSchema].v) = Cardinality(DOMAIN data.v[1].v)
                /\ {result.v[kSchema].v[j] : j \in 1..Len(result.v[kSchema].v)}
                        = {Str(key) : key \in DOMAIN data.v[1].v}
                /\ Len(result.v[kData].v) = Len(data.v)
                /\ \A i \in 1..Len(data.v) :
                        Len(result.v[kData].v[i].v) = Len(result.v[kSchema].v)
                /\ Rebuilt(result) = data
        /\ ~Uniform(data.v) => result = data

\* Three objects with the fields a and b came back as a schema of the two
\* names and three rows of two values.
C12_Witness ==
    /\ Returned
    /\ InferOnly
    /\ data = Arr([i \in 1..3 |->
                Obj([key \in {ka, kb} |-> IF (key = ka) = (i = 2) THEN Num(2) ELSE Bool(TRUE)])])
    /\ IsSchemaData(result)
    /\ Len(result.v[kSchema].v) = 2
    /\ Len(result.v[kData].v) = 3
    /\ Rebuilt(result) = data

\* Only number-delta encoding and its threshold are set.
DeltaOnly ==
    cfg = New([DefaultConfig EXCEPT !.NumberDeltaEncoding = TRUE,
                                    !.NumberDeltaThreshold = cfg.NumberDeltaThreshold])

\* Every element of the array is a number.
Numeric(arr) == \A i \in 1..Len(arr) : arr[i].k \in {"num", "int"}

\* The difference between element i + 1 and element i of an array of
\* floats, in units of 0.00005.
Step(arr, i) == (10000 * arr[i + 1].v + arr[i + 1].t) - (10000 * arr[i].v + arr[i].t)

\* Every consecutive difference equals 1.
StepsOfOne(arr) == \A i \in 1..(Len(arr) - 1) : Step(arr, i) = 20000

\* Every consecutive difference is within 0.0001 of the first, and the first
\* is less than 0.0001 from 1.
StepsNearOne(arr) ==
    /\ \A i \in 1..(Len(arr) - 1) :
            Step(arr, i) - Step(arr, 1) <= 2 /\ Step(arr, 1) - Step(arr, i) <= 2
    /\ Step(arr, 1) - 20000 < 2 /\ 20000 - Step(arr, 1) < 2

\* r is {"_range": [first, last]}.
IsRange(r, first, last) == r = Obj([key \in {kRange} |-> Arr(<<first, last>>)])

\* first, first + 1, ..., last, for whole steps.
Expanded(first, last) ==
    Arr([i \in 1..((last.v - first.v) \div 2 + 1) |-> NumNear(first.v + 2 * (i - 1), first.t)])

\* An array of floats long enough to be encoded.
Encodable(arr) ==
    /\ Len(arr) >= 2
    /\ Len(arr) >= cfg.NumberDeltaThreshold
    /\ \A i \in 1..Len(arr) : arr[i].k = "num"

\* C13 as claimed. Range encoding: with number-delta enabled an array is
\* replaced by {"_range": [first, last]} exactly when it has at least 2
\* elements, as many as the threshold, all numbers, every consecutive
\* difference being 1; then first, first + 1, ..., last is the array. Every
\* other array is returned unchanged.
C13_Claimed ==
    (Returned /\ DeltaOnly /\ data.k = "arr" /\ Len(data.v) > 0
        /\ \A i \in 1..Len(data.v) : data.v[i].k \in {"num", "null"}) =>
        IF Encodable(data.v) /\ StepsOfOne(data.v)
        THEN /\ IsRange(result, data.v[1], data.v[Len(data.v)])
             /\ Expanded(data.v[1], data.v[Len(data.v)]) = data
        ELSE result = data

\* C13 as amended. Range encoding: with number-delta enabled an array is
\* replaced by {"_range": [first, last]} exactly when it has at least 2
\* elements, as many as the threshold, all numbers, every consecutive
\* difference being within 0.0001 of the first one and the first one less
\* than 0.0001 from 1; first and last are the array's first and last
\* elements, and first, first + 1, ..., last is the array when the
\* differences are exactly 1. Every other array is returned unchanged.
C13_Range ==
    (Returned /\ DeltaOnly /\ data.k = "arr" /\ Len(data.v) > 0
        /\ \A i \in 1..Len(data.v) : data.v[i].k \in {"num", "null"}) =>
        IF Encodable(data.v) /\ StepsNearOne(data.v)
        THEN /\ IsRange(result, data.v[1], data.v[Len(data.v)])
             /\ StepsOfOne(data.v) => Expanded(data.v[1], data.v[Len(data.v)]) = data
        ELSE result = data

\* 1, 2, 3, 4, 5 with the threshold 5 came back as the range from 1 to 5.
C13_Witness ==
    /\ Returned
    /\ DeltaOnly
    /\ cfg.NumberDeltaThreshold = 5
    /\ data = Consecutive
    /\ IsRange(result, Num(2), Num(10))
    /\ Expanded(Num(2), Num(10)) = data

\* x holds a Go int somewhere.
RECURSIVE HoldsInt(_)
HoldsInt(x) ==
    CASE x.k = "int" -> TRUE
      [] x.k = "obj" -> \E key \in DOMAIN x.v : HoldsInt(x.v[key])
      [] x.k = "arr" -> \E i \in 1..Len(x.v) : HoldsInt(x.v[i])
      [] OTHER -> FALSE

\* Every Go int of x is an index into a list of n strings.
RECURSIVE IndicesBelow(_, _)
IndicesBelow(x, n) ==
    CASE x.k = "int" -> 0 <= x.v /\ x.v < n
      [] x.k = "obj" -> \A key \in DOMAIN x.v : IndicesBelow(x.v[key], n)
      [] x.k = "arr" -> \A i \in 1..Len(x.v) : IndicesBelow(x.v[i], n)
      [] OTHER -> TRUE

\* r carries a top-level _strings list that every index of r is within, the
\* list being the Slimmer's.
Resolvable(r) ==
    /\ r.k = "obj"
    /\ kStrings \in DOMAIN r.v
    /\ r.v[kStrings] = StringArray(stringList)
    /\ IndicesBelow(r, Len(stringList))

\* C14. Pool indices are resolvable: for an object root or an array root,
\* with string pooling enabled, whenever Slim replaces a string by a pool
\* index i (the input holding no integer of its own, an integer of the
\* result is such an index), the value returned carries a top-level _strings
\* list with 0 <= i < length.
C14_Claimed ==
    (Returned /\ cfg.StringPooling /\ data.k \in {"obj", "arr"}
        /\ ~HoldsInt(data) /\ HoldsInt(result)) => Resolvable(result)

\* C14 for results that are objects: the indices are resolvable.
C14_ObjectResults ==
    (Returned /\ cfg.StringPooling /\ ~HoldsInt(data) /\ HoldsInt(result) /\ result.k = "obj") =>
        Resolvable(result)

\* The number of times the string s occurs as a value in x.
RECURSIVE Occurrences(_, _)
Occurrences(x, s) ==
    CASE x.k = "str" -> IF x.v = s THEN 1 ELSE 0
      [] x.k = "arr" -> SumFun([i \in 1..Len(x.v) |-> Occurrences(x.v[i], s)])
      [] x.k = "obj" -> SumFun([key \in DOMAIN x.v |-> Occurrences(x.v[key], s)])
      [] OTHER -> 0

\* The pool is dense and its two halves agree: stringList has no string
\* twice, and stringPool[stringList[i]] is i, counting from 0.
PoolDense ==
    /\ \A i, j \in 1..Len(stringList) : stringList[i] = stringList[j] => i = j
    /\ DOMAIN stringPool = Range(stringList)
    /\ \A i \in 1..Len(stringList) : stringPool[stringList[i]] = i - 1

\* C15. Pool membership: after one Slim call on a fresh Slimmer with string
\* pooling enabled the pool holds exactly the distinct strings that occur at
\* least string-pool-min-occurrences times in the input and are longer than
\* 3 code points, each once, with the indices 0..k-1.
C15_Claimed ==
    (Returned /\ cfg.StringPooling) =>
        /\ Range(stringList) =
                {s \in stringsIn(data) :
                    Occurrences(data, s) >= cfg.StringPoolMinOccurrences /\ Len(s) > 3}
        /\ PoolDense

\* C15 with the length in bytes: the pool holds exactly the strings that
\* occur often enough and are longer than 3 bytes.
C15_ByBytes ==
    (Returned /\ cfg.StringPooling) =>
        /\ Range(stringList) =
                {s \in stringsIn(data) :
                    Occurrences(data, s) >= cfg.StringPoolMinOccurrences /\ ByteLen(s) > 3}
        /\ PoolDense

\* Only bool compression is enabled.
BoolsOnly == cfg = New([DefaultConfig EXCEPT !.BoolCompression = TRUE])

\* The boolean fields of an object.
BoolFields(x) == {key \in DOMAIN x.v : x.v[key].k = "bool"}

\* r is x with its boolean fields packed: they are gone, the other fields
\* are as they were, and _bools names them once each, bit i of flags being
\* 1 iff the field that keys[i] names was true, counting from 0.
Packed(x, r) ==
    /\ r.k = "obj"
    /\ DOMAIN r.v = (DOMAIN x.v \ BoolFields(x)) \cup {kBools}
    /\ \A key \in DOMAIN x.v \ BoolFields(x) : r.v[key] = x.v[key]
    /\ r.v[kBools].k = "obj"
    /\ DOMAIN r.v[kBools].v = {kFlags, kKeys}
    /\ Len(r.v[kBools].v[kKeys].v) = Cardinality(BoolFields(x))
    /\ {r.v[kBools].v[kKeys].v[i] : i \in 1..Len(r.v[kBools].v[kKeys].v)}
            = {Str(key) : key \in BoolFields(x)}
    /\ \A i \in 1..Len(r.v[kBools].v[kKeys].v) :
            ((i - 1) \in r.v[kBools].v[kFlags].v) = x.v[r.v[kBools].v[kKeys].v[i].v].v

\* A root object whose fields are scalars.
FlatObject == data.k = "obj" /\ \A key \in DOMAIN data.v : IsScalar(data.v[key])

\* C16. Bool compression is lossless for any number of boolean fields: an
\* object with k >= 3 boolean fields loses them and gains _bools = {flags,
\* keys}, bit i of flags being 1 iff the field keys[i] was true, also when k
\* is at least the word size; an object with fewer than 3 is unchanged.
C16_Claimed ==
    (Returned /\ BoolsOnly /\ FlatObject) =>
        IF Cardinality(BoolFields(data)) >= 3 THEN Packed(data, result) ELSE result = data

\* C16 within a word: the packing is lossless for 3 to 64 boolean fields.
C16_WithinWord ==
    (Returned /\ BoolsOnly /\ FlatObject /\ Cardinality(BoolFields(data)) <= WordBits) =>
        IF Cardinality(BoolFields(data)) >= 3 THEN Packed(data, result) ELSE result = data

\* Some call on the Slimmer has returned; data, tree and result are the last
\* call's.
Called == calls >= 1

\* C17. The input is never mutated: for every configuration and every
\* sequence of Slim calls on one Slimmer, fresh or reused, a call leaves the
\* value tree passed to it as it was, also when the root is an empty object
\* or an empty array that Slim returns as it is.
C17_Claimed == Called => tree = data

\* C17 for the roots prune copies: the caller's tree is as it was.
C17_CopiedRoots == (Called /\ ~returnsInput(cfg, data)) => tree = data

\* The results Slim(v) has on a freshly constructed Slimmer of configuration c.
AloneResults(c, v) == {slimOutcome(c, FreshState, v, ch).result : ch \in slimChoices(c, v)}

\* C18. Slimmer is safe for concurrent use: when Slim calls run concurrently
\* on one shared Slimmer, under every interleaving each call returns the
\* result it returns when run alone on that instance, and the instance is
\* not corrupted (the program does not die of concurrent map writes).
C18_Claimed ==
    \A g \in DOMAIN goroutines :
        /\ goroutines[g].pc # "fatal"
        /\ goroutines[g].pc = "done" =>
                goroutines[g].result \in AloneResults(cfg, goroutines[g].data)

\* C19. A Slimmer can be reused: for every sequence of Slim calls made one
\* after another on one Slimmer, the result of each call is a result that a
\* freshly constructed Slimmer of the same configuration returns for the
\* same input.
C19_Claimed == Called => result \in AloneResults(cfg, data)

\* C19 for the first call on a Slimmer: it is a call on a fresh Slimmer.
C19_FirstCall == (Returned /\ calls = 1) => result \in AloneResults(cfg, data)

\* The configurations in which the caller set nothing about decimal places:
\* the zero Config, and the "medium" profile, which is also what the HTTP
\* adapter starts from.
UnsetDecimalPlaces == {New(ZeroConfig), New(MediumProfile)}

\* C20. No rounding by default: a Slimmer constructed by New from a Config
\* in which the caller did not set DecimalPlaces, the built-in profiles and
\* the HTTP adapter's default included, rounds no number: decimal places
\* default to -1, no rounding, and a fractional number is output as it is.
C20_Claimed ==
    (Returned /\ cfg \in UnsetDecimalPlaces /\ data.k = "num") =>
        result = data

\* C20 for a Config that sets DecimalPlaces to -1: no number is rounded.
C20_OptOut == (Returned /\ cfg = New(DefaultConfig) /\ data.k = "num") => result = data

\* The code points strip-non-ASCII retains: printable ASCII, newline,
\* carriage return, tab.
Retained(r) == (32 <= r /\ r <= 126) \/ r \in {9, 10, 13}

\* Every string value of x is of retained code points only. Field names,
\* and so the lists of field names under the keys in names, are not string
\* values.
RECURSIVE OnlyRetained(_, _)
OnlyRetained(x, names) ==
    CASE x.k = "str" -> \A i \in 1..Len(x.v) : Retained(x.v[i])
      [] x.k = "arr" -> \A i \in 1..Len(x.v) : OnlyRetained(x.v[i], names)
      [] x.k = "obj" -> \A key \in DOMAIN x.v \ names : OnlyRetained(x.v[key], names)
      [] OTHER -> TRUE

\* x with the code points that are not retained deleted from every string.
RECURSIVE Deleted(_)
Deleted(x) ==
    CASE x.k = "str" -> Str(SelectSeq(x.v, Retained))
      [] x.k = "arr" -> Arr([i \in 1..Len(x.v) |-> Deleted(x.v[i])])
      [] x.k = "obj" -> Obj([key \in DOMAIN x.v |-> Deleted(x.v[key])])
      [] OTHER -> x

\* Only strip-non-ASCII is enabled.
AsciiOnly == cfg = New([DefaultConfig EXCEPT !.StripUTF8Emoji = TRUE])

\* C21. Strip non-ASCII: with strip-non-ASCII enabled every string value
\* anywhere in the value Slim returns, the elements of _strings and _enums
\* included, is of the code points 32..126, newline, carriage return and tab
\* only, and is the original with the other code points deleted.
C21_Claimed ==
    (Returned /\ cfg.StripUTF8Emoji) =>
        /\ OnlyRetained(result, {kNulls, kSchema, kKeys})
        /\ AsciiOnly => result = Deleted(data)

\* C21 outside the side-cars: the strings of the transformed tree are of
\* retained code points only.
C21_Tree ==
    (Returned /\ cfg.StripUTF8Emoji) =>
        /\ OnlyRetained(result, {kNulls, kSchema, kKeys, kStrings, kEnums})
        /\ AsciiOnly => result = Deleted(data)

\* The fields of the root object whose value was null in the input and that
\* the result does not hold.
RemovedNulls == {key \in DOMAIN data.v : data.v[key] = Null /\ key \notin DOMAIN result.v}

\* _nulls names the fields of S, one entry each, and is absent when S is
\* empty.
NullsList(S) ==
    IF S = {} THEN kNulls \notin DOMAIN result.v
    ELSE /\ kNulls \in DOMAIN result.v
         /\ result.v[kNulls].k = "arr"
         /\ Len(result.v[kNulls].v) = Cardinality(S)
         /\ {result.v[kNulls].v[i] : i \in 1..Len(result.v[kNulls].v)} = {Str(key) : key \in S}

\* C22. Null tracking: after one Slim call on a fresh Slimmer with null
\* compression enabled whose result is an object, _nulls lists exactly the
\* names of the fields whose value was null in the input and which were
\* removed from the output, one entry each, and is absent when there is no
\* such field. Stated for an object of scalar fields none of which is
\* blocked.
C22_Claimed ==
    (Returned /\ cfg.NullCompression /\ cfg.BlockList = {} /\ FlatObject /\ result.k = "obj") =>
        NullsList(RemovedNulls)

\* C22 under strip-empty, which removes every null field: _nulls lists the
\* removed null fields.
C22_WithStrip ==
    (Returned /\ cfg.NullCompression /\ cfg.StripEmpty /\ cfg.BlockList = {}
        /\ FlatObject /\ result.k = "obj") =>
        NullsList(RemovedNulls)

\* The <<path, string>> pairs of x: a string under a non-empty path of
\* object keys joined by '.', array levels adding no segment, and shorter
\* than 50, in bytes or in code points.
RECURSIVE Observed(_, _, _)
Observed(x, path, inBytes) ==
    CASE x.k = "obj" ->
            UNION {Observed(x.v[key], IF path = <<>> THEN key ELSE path \o <<46>> \o key, inBytes)
                   : key \in DOMAIN x.v}
      [] x.k = "arr" -> UNION {Observed(x.v[i], path, inBytes) : i \in 1..Len(x.v)}
      [] x.k = "str" ->
            IF path # <<>> /\ (IF inBytes THEN ByteLen(x.v) ELSE Len(x.v)) < 50
            THEN {<<path, x.v>>} ELSE {}
      [] OTHER -> {}

\* The distinct strings obs holds for a path.
ValuesAt(obs, path) == {p[2] : p \in {q \in obs : q[1] = path}}

\* _enums has an entry exactly for the paths of obs with at most
\* enum-max-values distinct strings, each entry holding those strings once
\* each, and is absent when there is no such path.
EnumsOf(obs) ==
    LET qualifying == {f \in {p[1] : p \in obs} :
                            Cardinality(ValuesAt(obs, f)) <= cfg.EnumMaxValues}
    IN IF qualifying = {} THEN kEnums \notin DOMAIN result.v
       ELSE /\ kEnums \in DOMAIN result.v
            /\ result.v[kEnums].k = "obj"
            /\ DOMAIN result.v[kEnums].v = qualifying
            /\ \A f \in qualifying :
                    /\ result.v[kEnums].v[f].k = "arr"
                    /\ Len(result.v[kEnums].v[f].v) = Cardinality(ValuesAt(obs, f))
                    /\ {result.v[kEnums].v[f].v[i] : i \in 1..Len(result.v[kEnums].v[f].v)}
                            = {Str(s) : s \in ValuesAt(obs, f)}

\* Only enum detection is enabled.
EnumOnly == cfg.EnumDetection /\ [cfg EXCEPT !.EnumMaxValues = 10] = New(Apply(DefaultConfig, "enum"))

\* C23. Enum detection: after one Slim call on a fresh Slimmer with enum
\* detection enabled whose result is an object, _enums has an entry for a
\* dotted field path exactly when a string shorter than 50 code points
\* occurs at the path in the input and the distinct such strings are at most
\* enum-max-values; the entry holds each of them once, and the strings of
\* the transformed tree are left as they are.
C23_Claimed ==
    (Returned /\ cfg.EnumDetection /\ result.k = "obj") =>
        /\ EnumsOf(Observed(data, <<>>, FALSE))
        /\ (EnumOnly /\ data.k = "obj") => Without(result, kEnums) = data

\* C23 with the length in bytes: the entries are those of the strings
\* shorter than 50 bytes.
C23_ByBytes ==
    (Returned /\ cfg.EnumDetection /\ result.k = "obj") =>
        /\ EnumsOf(Observed(data, <<>>, TRUE))
        /\ (EnumOnly /\ data.k = "obj") => Without(result, kEnums) = data

\* C24. No failure modes: New and Slim complete and return a value, with
\* no run-time failure, for every well-formed input and every Config a
\* caller can construct, negative integers and any strategy string
\* included.
C24_Claimed == Returned => result # Panic

\* C24 for the configs whose target size is not negative: Slim returns a
\* value.
C24_NoNegativeTarget == (Returned /\ targetSize(cfg) >= 0) => result # Panic

\* ParseConfigFile has returned the profiles of a file of valid lines.
Parsed == parser.pc = "returned"

\* The indices of the headers of the file, and of the last header of a name.
Headers == {i \in 1..Len(parser.file) : parser.file[i].k = "header"}
LastHeader(name) ==
    CHOOSE i \in Headers :
        /\ parser.file[i].name = name
        /\ \A j \in Headers : parser.file[j].name = name => j <= i

\* The key=value lines between header i and the next header or the end.
Section(i) ==
    {j \in (i + 1)..Len(parser.file) :
        /\ parser.file[j].k = "set"
        /\ \A h \in Headers : ~(i < h /\ h < j)}

\* The last line of the section of header i that sets key, or 0; with
\* written, only lines that write a value count.
LastSetting(i, key, written) ==
    LET lines == {j \in Section(i) :
                    /\ parser.file[j].key = key
                    /\ written => parser.file[j].value # {}}
    IN IF lines = {} THEN 0 ELSE CHOOSE j \in lines : \A l \in lines : l <= j

\* The Config of the section of header i: the defaults, and for each key the
\* value of its last line.
SectionSettings(i, written) ==
    LET depth == LastSetting(i, "depth", FALSE)
        block == LastSetting(i, "block", written)
    IN [DefaultConfig EXCEPT
            !.MaxDepth = IF depth = 0 THEN 0 ELSE parser.file[depth].value,
            !.BlockList = IF block = 0 THEN {} ELSE parser.file[block].value]

\* The profiles are one for each non-empty section name, each the settings
\* of its own section.
Isolated(written) ==
    /\ DOMAIN parser.profiles = {parser.file[i].name : i \in Headers} \ {""}
    /\ \A name \in DOMAIN parser.profiles :
            parser.profiles[name] = SectionSettings(LastHeader(name), written)

\* C25. Config-file sections are isolated: on a file of headers and valid
\* key=value lines ParseConfigFile returns one Config for each distinct
\* non-empty section name, holding exactly the settings written between its
\* header and the next header or the end of the file, the last occurrence of
\* a key winning, on top of DecimalPlaces = -1 and zero values; settings of
\* another section or from before the first header never appear in it.
C25_Claimed == Parsed => Isolated(FALSE)

\* C25 with the blocklist line of an empty value writing nothing: the last
\* occurrence of a key that writes a value wins.
C25_Isolated == Parsed => Isolated(TRUE)

\* A depth set before the first header, a section a that sets the blocklist,
\* a section b that sets nothing: a holds the blocklist only, b the defaults.
C25_Witness ==
    /\ Parsed
    /\ parser.file = <<[k |-> "set", key |-> "depth", value |-> 2],
                       [k |-> "header", name |-> "a"],
                       [k |-> "set", key |-> "block", value |-> {kb}],
                       [k |-> "header", name |-> "b"]>>
    /\ parser.profiles["a"] = [DefaultConfig EXCEPT !.BlockList = {kb}]
    /\ parser.profiles["b"] = DefaultConfig

\* map(prune, elements) for the root array, under the choices nd.
Mapped(nd) == [i \in 1..Len(data.v) |-> prune(cfg, stringPool, data.v[i], 1, nd)]

\* delta(infer(sample(dedup(filter(elems))))), each step as its option says;
\* a step that fails at run time fails the whole. With collapse, an array
\* that strip-empty finds empty after sampling is null.
Composed(elems, nd, collapse) ==
    LET filtered == SelectSeq(elems, LAMBDA e : ~stripped(cfg, e))
        deduped == IF cfg.DeduplicateArrays THEN deduplicateArray(filtered) ELSE filtered
        sampled == sampleArray(cfg, deduped, nd.perm)
        inferred == IF cfg.TypeInference
                    THEN applyTypeInference(cfg, sampled, nd.ord) ELSE Arr(sampled)
    IN IF \E i \in 1..Len(elems) : elems[i] = Panic THEN Panic
       ELSE IF samplePanics(cfg, deduped) THEN Panic
       ELSE IF collapse /\ cfg.StripEmpty /\ Len(sampled) = 0 THEN Null
       ELSE IF cfg.NumberDeltaEncoding /\ inferred.k = "arr"
            THEN applyNumberDelta(cfg, inferred.v)
            ELSE inferred

\* The result is the composition for some outcome of the call's choices,
\* with the side-cars a rewrite into an object gets.
IsComposed(collapse) ==
    \E ord \in keyOrders(data), perm \in permChoices(cfg, data) :
        result = attachMetadata(cfg, stringList, enumPools, nullFields,
                    Composed(Mapped([ord |-> ord, perm |-> perm]),
                             [ord |-> ord, perm |-> perm], collapse))

\* C26. Array pipeline order: for every non-empty input array not cut by the
\* depth gate the result is delta(infer(sample(dedup(filter(map(prune,
\* elements)))))): deduplication sees the survivors of strip-empty only,
\* sampling counts deduplicated survivors only, type inference sees the
\* sampled array, number-delta runs only on an array. Stated for the root
\* array under a target size that is not negative.
C26_Claimed ==
    (Returned /\ data.k = "arr" /\ Len(data.v) > 0 /\ targetSize(cfg) >= 0) => IsComposed(FALSE)

\* C26 with the collapse under strip-empty: the result is the composition,
\* or null when strip-empty finds no element left after sampling.
C26_Pipeline == (Returned /\ data.k = "arr" /\ Len(data.v) > 0) => IsComposed(TRUE)

\* 1, 1, 1, 2, 3 with deduplication and max list length 2 came back as 1, 2.
C26_Witness ==
    /\ Returned
    /\ cfg = New(Apply(Apply(DefaultConfig, "dedup"), "list2"))
    /\ data = Repeated
    /\ result = Arr(<<Num(2), Num(4)>>)

\* The step is the statistics pass of some call.
StatisticsStep ==
    \E g \in DOMAIN goroutines :
        goroutines[g].pc = "called" /\ goroutines'[g].pc = "collected"

\* C27. Instance state is write-once per call: every write to the Slimmer's
\* mutable state (string pool, string list, enum pools, null-tracking list)
\* happens in the statistics pass, before the recursive transform starts;
\* the recursive transform only reads that state.
C27_Claimed ==
    [][~StatisticsStep => UNCHANGED <<stringPool, stringList, enumPools, nullFields>>]_vars

\* C27 for the pools: the string pool, the string list and the enum pools
\* are written in the statistics pass only; the null-tracking list is
\* written by the recursive transform only.
C27_PoolsWriteOnce ==
    [][/\ ~StatisticsStep => UNCHANGED <<stringPool, stringList, enumPools>>
       /\ nullFields' # nullFields =>
            \E g \in DOMAIN goroutines :
                goroutines[g].pc = "collected" /\ goroutines'[g].pc = "pruned"]_vars

\* A call on {a: null, b: "abcde", B: "abcde"} has pooled the string in its
\* statistics pass and recorded the null field in its transform.
C27_Witness ==
    \E g \in DOMAIN goroutines :
        /\ goroutines[g].pc = "pruned"
        /\ goroutines[g].data = Obj([key \in {ka, kb, kB} |-> IF key = ka THEN Null ELSE Str(sLong)])
        /\ stringList = <<sLong>>
        /\ nullFields = <<ka>>
        /\ goroutines[g].pruned = Obj([key \in {ka, kb, kB} |-> IF key = ka THEN Null ELSE GoInt(0)])

\* The objects that differ from the input object only in the values stored
\* under field names the blocklist matches.
BlockedVariants ==
    {Obj(f) : f \in {h \in [DOMAIN data.v -> FieldValues] :
                        \A key \in DOMAIN data.v : ~isBlocked(cfg, key) => h[key] = data.v[key]}}

\* C28. Blocked fields do not influence the output: for every configuration,
\* two inputs that differ only in the values stored under field names
\* matching the blocklist produce equal outputs from fresh Slimmers; no value
\* of a blocked field appears in or affects _strings, _enums, _nulls, pool
\* indices or any other part of the result. Stated for objects of scalar
\* fields.
C28_Claimed ==
    (Returned /\ cfg.BlockList # {} /\ data \in FlatObjects) =>
        \A v \in BlockedVariants : result \in AloneResults(cfg, v)

\* C28 without the statistics pass: with string pooling and enum detection
\* off the blocked values do not influence the output.
C28_WithoutStatistics ==
    (Returned /\ cfg.BlockList # {} /\ ~cfg.StringPooling /\ ~cfg.EnumDetection
        /\ data \in FlatObjects) =>
        \A v \in BlockedVariants : result \in AloneResults(cfg, v)

\* C29. Returned values are stable: a value a Slim call returned, its
\* _strings, _enums and _nulls included, is not changed by a later Slim call
\* on the same Slimmer; it shares no mutable structure with the state a later
\* call writes.
C29_Claimed == Called => held.now = held.was

\* C29 without enum detection: the value the first call returned stays as it
\* was returned.
C29_WithoutEnums == (Called /\ ~cfg.EnumDetection) => held.now = held.was

\* C30. Determinism: for a fixed input and a fixed configuration whose sample
\* strategy is not random and whose enum detection is off, two Slim runs on
\* freshly constructed Slimmers return equal values: the same pool indices
\* and _strings order, the same _schema column order, the same _bools key
\* order and flags.
C30_Claimed ==
    (Returned /\ cfg.SampleStrategy # "random" /\ ~cfg.EnumDetection) =>
        AloneResults(cfg, data) = {result}

\* C30 where no list is built in the order of a range over a map: without
\* string pooling, null compression, type inference and bool compression
\* the runs return equal values.
C30_NoMapOrder ==
    (Returned /\ cfg.SampleStrategy # "random" /\ ~cfg.EnumDetection
        /\ ~cfg.StringPooling /\ ~observesOrder(cfg)) =>
        AloneResults(cfg, data) = {result}

====
